---- MODULE Spec2Model ----
(***************************************************************************)
(* cronmon: the per-service supervisor (type Process).                     *)
(*                                                                         *)
(* The repository holds two revisions of the supervisor:                   *)
(*   impl = "evch"   src/unnamed/part_004: commands are closures sent on   *)
(*                   evCh, the channels are dead (capacity 1) and done     *)
(*                   (capacity 1), Start() takes no argument and Takeover  *)
(*                   exists;                                               *)
(*   impl = "mutex"  src/cronmon/process.go:1-264: commands are booleans   *)
(*                   sent on startCmd (Start(restart)), the channels are   *)
(*                   exited (capacity 1) and finalize (unbuffered), and    *)
(*                   the spawn goroutine is handed proc.pmut.              *)
(* Both are modelled; Init picks the revision.  The child process is the   *)
(* exec.Process test double (sleepProcess) of src/cronmon/exec/exec.go.    *)
(***************************************************************************)
EXTENDS Integers, Sequences, FiniteSets, TLC

(* ---- bounds ---------------------------------------------------------- *)
MaxAttempts == 3  \* calls of startProc / adopted pids per supervisor
MaxEvents == 1    \* watcher events the monitor receives
MaxCmds     == 2  \* Start / Takeover calls made by the owner
MaxStops    == 2  \* Stop calls made by the owner
MaxNow      == 1  \* clock values 0..MaxNow; MaxNow stands for "MaxNow or later"
MaxLog      == 4  \* records in the journal ReadPreviousState reads
MaxInv      == 3  \* invocations of the command line on one journal path
MaxWrites   == 2  \* records one invocation writes to the journal
MaxDur      == 3  \* longest duration in a retry_backoff list, in clock ticks
MaxBackoffs == 4  \* longest retry_backoff list
MaxFails    == 4  \* attempts the failing spawner tells apart, and the records
                  \* of the journal that are kept
MaxStream   == 5  \* bytes in the stream a BackwardsReader reads

(* ---- configuration of the instance ----------------------------------- *)
\* The fields Process.RetryBackoff and Process.WaitTimeout are set per
\* instance; the values are those of TestProcess, in microseconds, which is
\* the unit of the clock: src/cronmon/process_test.go:66-71 (backoff) and
\* src/cronmon/process_test.go:45 (kill timeout).
RetryBackoff == <<0, 1, 5, 1000000>>
WaitTimeout == 1

Impls == {"evch", "mutex"}
\* exec.NewSleepProcess(dura, delay, pid):
\*   short    = (dura, 0)          exits with code 0 when its sleep ends or
\*                                 when it honours the graceful signal
\*   stubborn = (forever, forever) exits on SIGKILL only
\* When a short child exits is left open (no fairness is put on it), so a
\* child that lives until it is signalled, (forever, 0), is one of its
\* behaviours.
Kinds == {"short", "stubborn"}
Pids  == 1..MaxAttempts
Invs  == 1..MaxInv

VARIABLES
  impl,       \* which revision of process.go runs
  cancelled,  \* proc.ctx is done
  crashed,    \* the Go process has panicked (nil dereference)
  lp,         \* position of the startMonitor goroutine
  restart,    \* startMonitor's local `restart` (mutex revision)
  proc,       \* proc.proc: 0 = nil, otherwise the pid of the handle
  dead,       \* number of values buffered in proc.dead / proc.exited (cap 1)
  done,       \* proc.done / proc.finalize: "none" or the error being passed
  mu,         \* proc.pmut: "free", "loop" or "g" (held by a spawn goroutine)
  timerSet,   \* startMonitor's local timer # nil
  start,      \* startMonitor's local start channel: "nil", "timer", "dummy"
  timerAt,    \* deadline of the backoff timer
  afterAt,    \* deadline of stop()'s timer
  backoff,    \* startMonitor's local backoff index
  resetTime,  \* startMonitor's local resetTime
  now,        \* wall clock
  child,      \* the OS processes, by pid
  gr,         \* the spawn / wait goroutines, by id
  journal,    \* the events written to proc.j, oldest first
  nAttempts,  \* ids handed out so far
  nCmds,      \* Start / Takeover calls made so far
  nStops,     \* Stop calls made so far
  stopWait,   \* Stop callers blocked in <-proc.done
  stopRes,    \* what the first returned Stop returned
  jAtStop,    \* length of the journal when the first Stop returned
  stopPid,    \* the handle proc.stop() of the ctx.Done case signalled, or 0
  lastNoop,   \* the loop's last step was a start() that returned at the
              \* owned-handle check with the child alive
  statusFile, \* the status file of the service exists in the status directory
  \* the monitor (src/cronmon/monitor.go), for one service file
  mode,       \* "off" (supervisor on its own), "new" or "restore"
  mctx,       \* the monitor's context is done
  mpc,        \* position of the Monitor.monitor goroutine
  mcmd,       \* addFile's oldPID for the command it is sending: 0 = Start
  known,      \* the file is a key of m.procs
  rpc,        \* position of the rescan / restore goroutine; at the end
              \* "ran" (the loop ran its closure) or "done" (it did not)
  rpid,       \* the pid the restore closure passes to addFile
  nEvents,    \* watcher events received so far
  lastEv,     \* the event the loop has just handled
  firstCmd,   \* the first command the monitor sent for the file
  \* ReadPreviousState (src/cronmon/journal.go) and its JournalReader
  events,     \* what the reader yields, newest record first
  readErr,    \* the error the reader returns once the records are used up
  cursor,     \* records read so far
  hasQuit,    \* ReadPreviousState's local hasQuit
  deleted,    \* ReadPreviousState's local deleted
  state,      \* ReadPreviousState's local state
  ret,        \* what ReadPreviousState returned: a nil pointer or a state,
              \* and the error; err = "none" while it runs
  \* the command line (src/main.go) and the journal lock
  inv,        \* the invocations of `cronmon`: position in start(), the error
              \* of NewFileLockJournaler, the exit, the monitor, the writes
  lockedBy,   \* the invocation whose descriptor holds the flock, or 0
  \* the backoff of a supervisor whose spawner always fails
  retryBackoff, \* proc.RetryBackoff
  attempts,   \* the spawner's attempt counter; MaxFails = "MaxFails or more"
  spawnFor,   \* time startProc has been running: -1 not running, 0 none,
              \* 1 some
  sinceFail,  \* time since startProc last returned its error, up to MaxDur
  \* BackwardsReader (src/cronmon/journal/backwardio/backwardio.go)
  stream,     \* the bytes of the io.ReadSeeker
  delim,      \* the delimiter passed to every ReadUntil
  br,         \* the BackwardsReader: buf (backing array, offset, length;
              \* nil or not) and end
  toks,       \* the tokens returned so far, first call first
  brErr,      \* the error of the last ReadUntil, "nil" for none
  \* the journal file written by journal.Writer and read by journal.Reader
  written,    \* the events passed to Writer.Write with the time of the write
  got,        \* the events and times returned by Reader.Read, first call first
  \* multiWriter (src/cronmon/journal/journal.go)
  nSinks,     \* len(w.writers)
  mwPos,      \* 0: not in Write; k: the loop is about to call writers[k-1]
  mwFirst,    \* firstErr: 0 for nil, k for the error of writers[k-1]
  mwCalls,    \* the writers called by the current Write and whether each
              \* returned an error, in the order of the calls
  mwRet,      \* what the last Write returned (as mwFirst), -1 for none yet
  mwWrites,   \* the calls of Write so far
  \* the directory watcher of the monitor (src/cronmon/watcher.go)
  nbRet,      \* nextBackoff on its own: the index passed in and the two
              \* durations returned by the last call
  wpc         \* the goroutine of TryWatch: "off" without a monitor, "init"
              \* before w.init() returns, "watching" in w.watch(ctx),
              \* "failed" once it has journaled the warning and returned

mvars == <<mode, mctx, mpc, mcmd, known, rpc, rpid, nEvents, lastEv, firstCmd>>

rvars == <<events, readErr, cursor, hasQuit, deleted, state, ret>>

\* The variables of the library functions that are modelled on their own.
lvars == <<inv, lockedBy>>

bvars == <<retryBackoff, attempts, spawnFor, sinceFail>>

svars == <<stream, delim, br, toks, brErr>>

jvars == <<written, got>>

\* The function variables added after the first four groups.
wvars == <<nSinks, mwPos, mwFirst, mwCalls, mwRet, mwWrites>>

ovars == <<jvars, wvars, nbRet, wpc>>

fvars == <<rvars, lvars, bvars, svars, ovars>>

vars == <<impl, cancelled, crashed, lp, restart, proc, dead, done, mu,
          timerSet, start, timerAt, afterAt, backoff, resetTime, now,
          child, gr, journal, nAttempts, nCmds, nStops, stopWait, stopRes,
          jAtStop, stopPid, lastNoop, statusFile, mvars, fvars>>

(* ---- helpers --------------------------------------------------------- *)
Min(a, b) == IF a < b THEN a ELSE b

\* time.Time.Add on the bounded clock.
AddTime(t, d) == Min(t + d, MaxNow)

\* now.After(t); at the end of the clock range both answers are possible.
After(t) == IF now = MaxNow /\ t = MaxNow THEN BOOLEAN ELSE {now > t}

EventProcessSpawned(p)    == <<"spawned", p, 0>>
EventProcessExited(p, c)  == <<"exited", p, c>>
EventProcessSpawnError    == <<"spawnerr", 0, 0>>
EventProcessTakeoverError == <<"takeovererr", 0, 0>>
EventWarning              == <<"warning", 0, 0>>
EventWatcherWarning       == <<"warning", 0, 1>>   \* Component: "watcher"
EventAcquired             == <<"acquired", 0, 0>>
EventQuit                 == <<"quit", 0, 0>>

\* Journaler.Write: append.
Write(j, ev) == Append(j, ev)

NoChild == [st |-> "none", kind |-> "short", int |-> FALSE, kill |-> FALSE,
            code |-> 0, own |-> FALSE]
NoGr    == [pc |-> "none", h |-> 0, code |-> 0]

\* nextBackoff(backoffs, &ix): the new index and the two durations.
nextBackoff(backoffs, ix) ==
  LET n        == Len(backoffs)
      startIx  == IF ix < n - 1 THEN ix + 1 ELSE ix
      resetIx0 == startIx
      resetIx  == IF ix < n - 1 /\ resetIx0 < n - 2 THEN resetIx0 + 1
                  ELSE resetIx0
  IN  [ix |-> startIx, start |-> backoffs[startIx + 1],
       reset |-> backoffs[resetIx + 1]]

\* sleepProcess.Signal(SIGINT / SIGTERM): the signal is pending on the child.
Signal(c, p) == IF p = 0 THEN c ELSE [c EXCEPT ![p].int = TRUE]
\* sleepProcess.Kill.
Kill(c, p)   == IF p = 0 THEN c ELSE [c EXCEPT ![p].kill = TRUE]

(* ---- construction ---------------------------------------------------- *)
\* A supervisor used on its own (as process_test.go does): no monitor.
NoMonitor ==
  /\ wpc = "off"
  /\ mode = "off"
  /\ mctx = FALSE
  /\ mpc = "off"
  /\ mcmd = 0
  /\ known = FALSE
  /\ rpc = "off"
  /\ rpid = 0
  /\ nEvents = 0
  /\ lastEv = "none"
  /\ firstCmd = "none"

\* ReadPreviousState is not running: its locals and its result do not
\* exist (0).
NoReader ==
  /\ events = <<>>
  /\ readErr = "none"
  /\ cursor = 0
  /\ hasQuit = FALSE
  /\ deleted = {}
  /\ state = 0
  /\ ret = 0

\* The command line has not been invoked.
NoInv == [pc |-> "idle", err |-> "none", exit |-> "none", monitor |-> FALSE,
          spawned |-> FALSE, writes |-> 0]
\* No invocation exists (0).
NoLock ==
  /\ inv = 0
  /\ lockedBy = 0

\* The backoff is modelled by the coarse clock of the supervisor.
NoBackoff ==
  /\ retryBackoff = RetryBackoff
  /\ attempts = 0
  /\ spawnFor = -1
  /\ sinceFail = 0

\* maxTok as TestBackwardsReader sets it (src/cronmon/journal/writer.go:98).
maxTok == 3

\* NewBackwardsReader(r): buf is nil.  A byte is "LF" (the newline), ";" or
\* "a"; "0" is the zero byte of a fresh array.
NewBackwardsReader ==
  [nil |-> TRUE, arr |-> [i \in 1..maxTok |-> "0"], off |-> 0, len |-> 0,
   end |-> 0]

\* No BackwardsReader exists (0).
NoScanner ==
  /\ stream = <<>>
  /\ delim = "LF"
  /\ br = 0
  /\ toks = <<>>
  /\ brErr = "nil"

\* No journal file is written or read.
NoJournalFile ==
  /\ written = <<>>
  /\ got = <<>>

\* No multiWriter is in use.
NoMultiWriter ==
  /\ nSinks = 0
  /\ mwPos = 0
  /\ mwFirst = 0
  /\ mwCalls = <<>>
  /\ mwRet = -1
  /\ mwWrites = 0

\* nextBackoff has not been called on its own: nothing was returned (0).
NoNextBackoff == nbRet = 0

\* None of the functions added after the first four groups is running.
NoOthers ==
  /\ NoJournalFile
  /\ NoMultiWriter
  /\ NoNextBackoff

\* None of the library functions modelled on their own is running.
NoFunctions ==
  /\ NoReader
  /\ NoLock
  /\ NoBackoff
  /\ NoScanner
  /\ NoOthers

\* NewProcess: the state right after `go proc.startMonitor()`.
Init ==
  /\ NoFunctions
  /\ impl \in Impls
  /\ cancelled = FALSE
  /\ crashed = FALSE
  /\ lp = "select"
  /\ restart = FALSE
  /\ proc = 0
  /\ dead = 0
  /\ done = "none"
  /\ mu = "free"
  /\ timerSet = FALSE
  /\ start = "nil"
  /\ timerAt = 0
  /\ afterAt = 0
  /\ backoff = -1
  /\ resetTime = -1
  /\ now = 0
  /\ child = [p \in Pids |-> NoChild]
  /\ gr = [p \in Pids |-> NoGr]
  /\ journal = <<>>
  /\ nAttempts = 0
  /\ nCmds = 0
  /\ nStops = 0
  /\ stopWait = 0
  /\ stopRes = "none"
  /\ jAtStop = -1
  /\ stopPid = 0
  /\ lastNoop = FALSE
  /\ statusFile \in BOOLEAN
  /\ NoMonitor

(* ---- the child processes (exec.Process) ------------------------------- *)
\* The exit codes a live child can exit with now: 0 when its sleep ends or
\* when it honours a graceful signal, -1 when a SIGKILL is pending.
ExitCodes(c) ==
  (IF c.kind = "short" THEN {0} ELSE {})
  \cup (IF c.kill THEN {-1} ELSE {})

\* A child exits.
ChildExit(p) ==
  /\ ~crashed
  /\ child[p].st = "alive"
  /\ \E c \in ExitCodes(child[p]) :
       child' = [child EXCEPT ![p].st = "dead", ![p].code = c]
  /\ UNCHANGED <<fvars, statusFile, mvars, impl, cancelled, crashed, lp, restart, proc, dead, done, mu,
                 timerSet, start, timerAt, afterAt, backoff, resetTime, now,
                 gr, journal, nAttempts, nCmds, nStops, stopWait, stopRes,
                 jAtStop, stopPid, lastNoop>>

\* Time passes.
Tick ==
  /\ ~crashed
  /\ now < MaxNow
  /\ now' = now + 1
  /\ UNCHANGED <<fvars, statusFile, mvars, impl, cancelled, crashed, lp, restart, proc, dead, done, mu,
                 timerSet, start, timerAt, afterAt, backoff, resetTime,
                 child, gr, journal, nAttempts, nCmds, nStops, stopWait,
                 stopRes, jAtStop, stopPid, lastNoop>>

(* ---- the goroutine that waits for the child -------------------------- *)
\* evch revision: `status := proc.proc.Wait()` evaluates the shared field
\* proc.proc inside the new goroutine; nil there is a nil dereference.
GrLoad(g) ==
  /\ ~crashed
  /\ gr[g].pc = "load"
  /\ IF proc = 0
       THEN crashed' = TRUE /\ gr' = gr
       ELSE crashed' = crashed /\ gr' = [gr EXCEPT ![g].pc = "wait", ![g].h = proc]
  /\ UNCHANGED <<fvars, statusFile, mvars, impl, cancelled, lp, restart, proc, dead, done, mu,
                 timerSet, start, timerAt, afterAt, backoff, resetTime, now,
                 child, journal, nAttempts, nCmds, nStops, stopWait, stopRes,
                 jAtStop, stopPid, lastNoop>>

\* mutex revision: the spawn goroutine calls proc.startProc() holding
\* proc.pmut; on failure it journals the error, on success it stores the
\* handle; either way it unlocks.
GrSpawn(g) ==
  /\ ~crashed
  /\ gr[g].pc = "spawn"
  /\ \/ /\ journal' = Write(journal, EventProcessSpawnError)
        /\ gr' = [gr EXCEPT ![g].pc = "send"]
        /\ UNCHANGED <<proc, child>>
     \/ \E k \in Kinds :
        /\ child' = [child EXCEPT ![g] = [NoChild EXCEPT !.st = "alive",
                                           !.kind = k, !.own = TRUE]]
        /\ proc' = g
        /\ gr' = [gr EXCEPT ![g].pc = "wspawned", ![g].h = g]
        /\ UNCHANGED journal
  /\ mu' = "free"
  /\ UNCHANGED <<fvars, statusFile, mvars, impl, cancelled, crashed, lp, restart, dead, done,
                 timerSet, start, timerAt, afterAt, backoff, resetTime, now,
                 nAttempts, nCmds, nStops, stopWait, stopRes, jAtStop, stopPid, lastNoop>>

\* mutex revision: the spawn goroutine journals ProcessSpawned.
GrWriteSpawned(g) ==
  /\ ~crashed
  /\ gr[g].pc = "wspawned"
  /\ journal' = Write(journal, EventProcessSpawned(gr[g].h))
  /\ gr' = [gr EXCEPT ![g].pc = "wait"]
  /\ UNCHANGED <<fvars, statusFile, mvars, impl, cancelled, crashed, lp, restart, proc, dead, done, mu,
                 timerSet, start, timerAt, afterAt, backoff, resetTime, now,
                 child, nAttempts, nCmds, nStops, stopWait, stopRes, jAtStop, stopPid, lastNoop>>

\* The goroutine signals as soon as Wait() has returned, before journaling.
GrWaitUnjournaled(g) ==
  /\ ~crashed
  /\ gr[g].pc = "wait"
  /\ child[gr[g].h].st = "dead"
  /\ gr' = [gr EXCEPT ![g].pc = "send", ![g].code = child[gr[g].h].code]
  /\ UNCHANGED <<fvars, statusFile, mvars, impl, cancelled, crashed, lp, restart, proc, dead, done, mu,
                 timerSet, start, timerAt, afterAt, backoff, resetTime, now,
                 child, journal, nAttempts, nCmds, nStops, stopWait, stopRes,
                 jAtStop, stopPid, lastNoop>>

\* Wait() returns the exit status of the handle.
GrWait(g) ==
  /\ ~crashed
  /\ gr[g].pc = "wait"
  /\ child[gr[g].h].st = "dead"
  /\ gr' = [gr EXCEPT ![g].pc = "write", ![g].code = child[gr[g].h].code]
  /\ UNCHANGED <<fvars, statusFile, mvars, impl, cancelled, crashed, lp, restart, proc, dead, done, mu,
                 timerSet, start, timerAt, afterAt, backoff, resetTime, now,
                 child, journal, nAttempts, nCmds, nStops, stopWait, stopRes,
                 jAtStop, stopPid, lastNoop>>

\* The goroutine journals ProcessExited.
GrWrite(g) ==
  /\ ~crashed
  /\ gr[g].pc = "write"
  /\ journal' = Write(journal, EventProcessExited(gr[g].h, gr[g].code))
  /\ gr' = [gr EXCEPT ![g].pc = "send"]
  /\ UNCHANGED <<fvars, statusFile, mvars, impl, cancelled, crashed, lp, restart, proc, dead, done, mu,
                 timerSet, start, timerAt, afterAt, backoff, resetTime, now,
                 child, nAttempts, nCmds, nStops, stopWait, stopRes, jAtStop, stopPid, lastNoop>>

\* The goroutine sends on proc.dead / proc.exited (capacity 1) and ends.
GrSend(g) ==
  /\ ~crashed
  /\ gr[g].pc = "send"
  /\ dead = 0
  /\ dead' = 1
  /\ gr' = [gr EXCEPT ![g] = [NoGr EXCEPT !.pc = "done"]]
  /\ UNCHANGED <<fvars, statusFile, mvars, impl, cancelled, crashed, lp, restart, proc, done, mu,
                 timerSet, start, timerAt, afterAt, backoff, resetTime, now,
                 child, journal, nAttempts, nCmds, nStops, stopWait, stopRes,
                 jAtStop, stopPid, lastNoop>>

(* ---- the startMonitor loop ------------------------------------------- *)
\* `case <-start` can be taken: the dummy channel of a start command holds a
\* value, or the backoff timer has fired.
StartReady == start = "dummy" \/ (start = "timer" /\ now >= timerAt)

\* Process.start() without the owned-handle check (as in the oldest
\* revision, src/cronmon/process.go:359-375): it spawns unconditionally.
start_unchecked ==
  /\ lastNoop' = (proc # 0 /\ child[proc].st = "alive")
  /\ nAttempts < MaxAttempts
  /\ nAttempts' = nAttempts + 1
  /\ \E k \in Kinds :
       child' = [child EXCEPT ![nAttempts + 1] =
                   [NoChild EXCEPT !.st = "alive", !.kind = k, !.own = TRUE]]
  /\ proc' = nAttempts + 1
  /\ lp' = "startWaiting"
  /\ statusFile' = FALSE
  /\ UNCHANGED <<dead, journal>>

\* evch revision, Process.start(): no-op when a handle is owned; otherwise
\* proc.startProc().  On error it sends on proc.dead and then journals
\* ProcessSpawnError; the send blocks for good when the buffer is full (only
\* this goroutine receives from proc.dead).  On success it stores the handle
\* and goes on to startWaiting.  startProcess creates the status file, hands
\* it to the child and unlinks it again, whether the spawn succeeded or not.
start_evch ==
  IF proc # 0
    THEN /\ lastNoop' = (child[proc].st = "alive")
         /\ UNCHANGED <<proc, dead, journal, lp, child, nAttempts, statusFile>>
    ELSE
      /\ lastNoop' = FALSE
      /\ nAttempts < MaxAttempts
      /\ nAttempts' = nAttempts + 1
      /\ statusFile' = FALSE
      /\ \/ /\ dead = 0
            /\ dead' = 1
            /\ journal' = Write(journal, EventProcessSpawnError)
            /\ UNCHANGED <<proc, lp, child>>
         \/ /\ dead = 1
            /\ lp' = "blocked"
            /\ UNCHANGED <<proc, dead, journal, child>>
         \/ \E k \in Kinds :
            /\ child' = [child EXCEPT ![nAttempts + 1] =
                           [NoChild EXCEPT !.st = "alive", !.kind = k,
                                           !.own = TRUE]]
            /\ proc' = nAttempts + 1
            /\ lp' = "startWaiting"
            /\ UNCHANGED <<dead, journal>>

\* evch revision, Process.takeover(pid): no-op when a handle is owned; when
\* os.Stat does not find the status file it sends on proc.dead and journals
\* ProcessSpawnError; otherwise the pid is adopted.  exec.FindProcess is
\* os.FindProcess, which returns no error on the systems the package builds
\* for (it imports golang.org/x/sys/unix), so the branch of part_004:154-164
\* is not taken.  c is the process table with the process of that pid in it,
\* n the number of pids in use afterwards.
takeover(pid, c, n) ==
  IF proc # 0
    THEN UNCHANGED <<proc, dead, journal, lp, child, nAttempts>>
    ELSE
      /\ n <= MaxAttempts
      /\ nAttempts' = n
      /\ IF ~statusFile
           THEN \/ /\ dead = 0
                   /\ dead' = 1
                   /\ journal' = Write(journal, EventProcessSpawnError)
                   /\ UNCHANGED <<proc, lp, child>>
                \/ /\ dead = 1
                   /\ lp' = "blocked"
                   /\ UNCHANGED <<proc, dead, journal, child>>
           ELSE /\ child' = c
                /\ proc' = pid
                /\ lp' = "startWaiting"
                /\ UNCHANGED <<dead, journal>>

\* Process.Start() / Process.Start(restart): the loop receives the command.
\* evch: `case fn := <-proc.evCh: fn()` with fn = proc.start.
\* mutex: `case restart = <-proc.startCmd: start = dummyTimeCh()`.
CmdStartWithin(n) ==
  /\ ~crashed
  /\ lp = "select"
  /\ nCmds < n
  /\ nCmds' = nCmds + 1
  /\ \/ /\ impl = "evch"
        /\ start_evch
        /\ UNCHANGED <<restart, start>>
     \/ /\ impl = "mutex"
        /\ restart' \in BOOLEAN
        /\ start' = "dummy"
        /\ lastNoop' = FALSE
        /\ UNCHANGED <<proc, dead, journal, lp, child, nAttempts, statusFile>>
  /\ UNCHANGED <<fvars, mvars, impl, cancelled, crashed, done, mu, timerSet, timerAt,
                 afterAt, backoff, resetTime, now, gr, nStops, stopWait,
                 stopRes, jAtStop, stopPid>>

CmdStart == CmdStartWithin(MaxCmds)

\* Process.Takeover(pid): `case fn := <-proc.evCh: fn()`.
CmdTakeover ==
  /\ ~crashed
  /\ impl = "evch"
  /\ lp = "select"
  /\ nCmds < MaxCmds
  /\ nCmds' = nCmds + 1
  /\ \E k \in Kinds :
       takeover(nAttempts + 1,
                [child EXCEPT ![nAttempts + 1] =
                   [NoChild EXCEPT !.st = "alive", !.kind = k]],
                nAttempts + 1)
  /\ lastNoop' = FALSE
  /\ UNCHANGED <<fvars, statusFile, mvars, impl, cancelled, crashed, restart, done, mu, timerSet, start,
                 timerAt, afterAt, backoff, resetTime, now, gr, nStops,
                 stopWait, stopRes, jAtStop, stopPid>>

\* evch revision, startWaiting: journal ProcessSpawned with the pid of
\* proc.proc and start the wait goroutine.
LoopStartWaiting ==
  /\ ~crashed
  /\ lp = "startWaiting"
  /\ journal' = Write(journal, EventProcessSpawned(proc))
  /\ gr' = [gr EXCEPT ![proc] = [NoGr EXCEPT !.pc = "load"]]
  /\ lp' = "select"
  /\ lastNoop' = FALSE
  /\ UNCHANGED <<fvars, statusFile, mvars, impl, cancelled, crashed, restart, proc, dead, done, mu,
                 timerSet, start, timerAt, afterAt, backoff, resetTime, now,
                 child, nAttempts, nCmds, nStops, stopWait, stopRes, jAtStop, stopPid>>

\* `case <-start:` proc.start(...); cleanupTimer().
\* mutex revision, Process.start(restart): takes proc.pmut; with a handle
\* owned it returns (restart = false) or runs stop(false) first; then it
\* starts the spawn goroutine, which inherits the locked mutex.
LoopStart ==
  /\ ~crashed
  /\ lp = "select"
  /\ StartReady
  /\ timerSet' = FALSE
  /\ start' = "nil"
  /\ \/ /\ impl = "evch"
        /\ start_evch
        /\ UNCHANGED <<restart, mu, gr, afterAt>>
     \/ /\ impl = "mutex"
        /\ mu = "free"
        /\ restart' = FALSE
        /\ statusFile' = statusFile
        /\ \/ /\ proc # 0 /\ ~restart
              /\ lastNoop' = (child[proc].st = "alive")
              /\ UNCHANGED <<proc, dead, journal, lp, child, nAttempts, mu,
                             gr, afterAt>>
           \/ /\ proc # 0 /\ restart
              /\ lastNoop' = FALSE
              /\ nAttempts < MaxAttempts
              /\ child' = Signal(child, proc)
              /\ afterAt' = AddTime(now, WaitTimeout)
              /\ mu' = "loop"
              /\ lp' = "restartStop"
              /\ UNCHANGED <<proc, dead, journal, nAttempts, gr>>
           \/ /\ proc = 0
              /\ lastNoop' = FALSE
              /\ nAttempts < MaxAttempts
              /\ nAttempts' = nAttempts + 1
              /\ gr' = [gr EXCEPT ![nAttempts + 1] = [NoGr EXCEPT !.pc = "spawn"]]
              /\ mu' = "g"
              /\ UNCHANGED <<proc, dead, journal, lp, child, afterAt>>
  /\ UNCHANGED <<fvars, mvars, impl, cancelled, crashed, done, timerAt, backoff, resetTime,
                 now, nCmds, nStops, stopWait, stopRes, jAtStop, stopPid>>

\* mutex revision, stop(false) inside start(true): the timeout fires.
LoopRestartTimeout ==
  /\ ~crashed
  /\ lp = "restartStop"
  /\ now >= afterAt
  /\ child' = Kill(child, proc)
  /\ lp' = "restartKilled"
  /\ lastNoop' = FALSE
  /\ UNCHANGED <<fvars, statusFile, mvars, impl, cancelled, crashed, restart, proc, dead, done, mu,
                 timerSet, start, timerAt, afterAt, backoff, resetTime, now,
                 gr, journal, nAttempts, nCmds, nStops, stopWait, stopRes,
                 jAtStop, stopPid>>

\* mutex revision, stop(false) inside start(true) receives from proc.exited:
\* proc.proc = nil, then the spawn goroutine is started.
LoopRestartDead ==
  /\ ~crashed
  /\ lp \in {"restartStop", "restartKilled"}
  /\ dead > 0
  /\ dead' = 0
  /\ proc' = 0
  /\ nAttempts' = nAttempts + 1
  /\ gr' = [gr EXCEPT ![nAttempts + 1] = [NoGr EXCEPT !.pc = "spawn"]]
  /\ mu' = "g"
  /\ lp' = "select"
  /\ lastNoop' = FALSE
  /\ UNCHANGED <<fvars, statusFile, mvars, impl, cancelled, crashed, restart, done, timerSet, start,
                 timerAt, afterAt, backoff, resetTime, now, child, journal,
                 nCmds, nStops, stopWait, stopRes, jAtStop, stopPid>>

\* `case <-proc.dead:` (evch) / `case <-proc.exited:` (mutex).  The store
\* proc.proc = nil is made without proc.pmut; it is ordered before or after
\* the store of a running spawn goroutine by the interleaving.
LoopDead ==
  /\ ~crashed
  /\ lp = "select"
  /\ dead > 0
  /\ dead' = 0
  /\ proc' = 0
  /\ \E past \in After(resetTime) :
       LET nb == nextBackoff(RetryBackoff, IF past THEN -1 ELSE backoff)
       IN  /\ backoff' = nb.ix
           /\ resetTime' = AddTime(now, nb.reset)
           /\ timerAt' = AddTime(now, nb.start)
  /\ timerSet' = TRUE
  /\ start' = "timer"
  /\ lastNoop' = FALSE
  /\ UNCHANGED <<fvars, statusFile, mvars, impl, cancelled, crashed, lp, restart, done, mu, afterAt,
                 now, child, gr, journal, nAttempts, nCmds, nStops, stopWait,
                 stopRes, jAtStop, stopPid>>

\* `case <-proc.ctx.Done():` runs proc.stop().  Without a handle stop returns
\* nil at once and the result goes to proc.done / proc.finalize; with a
\* handle it sends the graceful signal and arms the WaitTimeout timer.
LoopCtxDone ==
  /\ ~crashed
  /\ lp = "select"
  /\ cancelled
  /\ impl = "mutex" => mu = "free"
  /\ timerSet' = FALSE
  /\ start' = IF timerSet \/ impl = "evch" THEN "nil" ELSE start
  /\ IF proc = 0
       THEN /\ done' = "nil"
            /\ lp' = IF impl = "evch" THEN "exit" ELSE "finalize"
            /\ UNCHANGED <<child, afterAt, mu>>
       ELSE /\ child' = Signal(child, proc)
            /\ afterAt' = AddTime(now, WaitTimeout)
            /\ lp' = "stop"
            /\ mu' = IF impl = "mutex" THEN "loop" ELSE mu
            /\ done' = done
  /\ stopPid' = proc
  /\ lastNoop' = FALSE
  /\ UNCHANGED <<fvars, statusFile, mvars, impl, cancelled, crashed, restart, proc, dead, timerAt,
                 backoff, resetTime, now, gr, journal, nAttempts, nCmds,
                 nStops, stopWait, stopRes, jAtStop>>

\* stop(): `case <-after.C:` kill the child, then wait for proc.dead.
LoopStopTimeout ==
  /\ ~crashed
  /\ lp = "stop"
  /\ now >= afterAt
  /\ child' = Kill(child, proc)
  /\ lp' = "stopKilled"
  /\ lastNoop' = FALSE
  /\ UNCHANGED <<fvars, statusFile, mvars, impl, cancelled, crashed, restart, proc, dead, done, mu,
                 timerSet, start, timerAt, afterAt, backoff, resetTime, now,
                 gr, journal, nAttempts, nCmds, nStops, stopWait, stopRes,
                 jAtStop, stopPid>>

\* stop(): a value arrives on proc.dead / proc.exited; stop returns nil, or
\* the timeout error after a kill.  The mutex revision also clears proc.proc
\* and unlocks.
LoopStopDead ==
  /\ ~crashed
  /\ lp \in {"stop", "stopKilled"}
  /\ dead > 0
  /\ dead' = 0
  /\ done' = IF lp = "stop" THEN "nil" ELSE "timeout"
  /\ lp' = IF impl = "evch" THEN "exit" ELSE "finalize"
  /\ proc' = IF impl = "mutex" THEN 0 ELSE proc
  /\ mu' = IF impl = "mutex" THEN "free" ELSE mu
  /\ lastNoop' = FALSE
  /\ UNCHANGED <<fvars, statusFile, mvars, impl, cancelled, crashed, restart, timerSet, start, timerAt,
                 afterAt, backoff, resetTime, now, child, gr, journal,
                 nAttempts, nCmds, nStops, stopWait, stopRes, jAtStop, stopPid>>

(* ---- Stop ------------------------------------------------------------ *)
\* Process.Stop(): proc.cancel(), then the caller blocks in the receive.
StopCall ==
  /\ ~crashed
  /\ nStops < MaxStops
  /\ nStops' = nStops + 1
  /\ cancelled' = TRUE
  /\ stopWait' = stopWait + 1
  /\ UNCHANGED <<fvars, statusFile, mvars, impl, crashed, lp, restart, proc, dead, done, mu, timerSet,
                 start, timerAt, afterAt, backoff, resetTime, now, child, gr,
                 journal, nAttempts, nCmds, stopRes, jAtStop, stopPid, lastNoop>>

\* `return <-proc.done` / `return <-proc.finalize`: a Stop caller receives
\* the result; the sending loop of the mutex revision then returns.
StopReturn ==
  /\ ~crashed
  /\ stopWait > 0
  /\ done # "none"
  /\ done' = "none"
  /\ stopWait' = stopWait - 1
  /\ lp' = IF lp = "finalize" THEN "exit" ELSE lp
  /\ stopRes' = IF stopRes = "none" THEN done ELSE stopRes
  /\ jAtStop' = IF jAtStop = -1 THEN Len(journal) ELSE jAtStop
  /\ UNCHANGED <<fvars, statusFile, mvars, impl, cancelled, crashed, restart, proc, dead, mu, timerSet,
                 start, timerAt, afterAt, backoff, resetTime, now, child, gr,
                 journal, nAttempts, nCmds, nStops, stopPid, lastNoop>>

Next ==
  \/ CmdStart
  \/ CmdTakeover
  \/ LoopStartWaiting
  \/ LoopStart
  \/ LoopRestartTimeout
  \/ LoopRestartDead
  \/ LoopDead
  \/ LoopCtxDone
  \/ LoopStopTimeout
  \/ LoopStopDead
  \/ StopCall
  \/ StopReturn
  \/ Tick
  \/ \E p \in Pids : ChildExit(p)
  \/ \E g \in Pids : GrLoad(g)
  \/ \E g \in Pids : GrSpawn(g)
  \/ \E g \in Pids : GrWriteSpawned(g)
  \/ \E g \in Pids : GrWait(g)
  \/ \E g \in Pids : GrWrite(g)
  \/ \E g \in Pids : GrSend(g)

Spec == Init /\ [][Next]_vars

\* Scheduling: time advances; a select with several ready cases picks each
\* of them with equal probability, so a case that is ready again and again
\* is taken; goroutines that can run do run; a Stop caller blocked in the
\* receive takes the value; a child that has been sent SIGKILL exits.
Fairness ==
  /\ WF_vars(Tick)
  /\ SF_vars(LoopCtxDone)
  /\ SF_vars(LoopDead)
  /\ SF_vars(LoopStart)
  /\ WF_vars(LoopStartWaiting)
  /\ WF_vars(LoopRestartTimeout)
  /\ WF_vars(LoopRestartDead)
  /\ WF_vars(LoopStopTimeout)
  /\ WF_vars(LoopStopDead)
  /\ WF_vars(StopReturn)
  /\ \A g \in Pids : WF_vars(GrLoad(g) \/ GrSpawn(g) \/ GrWriteSpawned(g)
                               \/ GrWait(g) \/ GrWrite(g) \/ GrSend(g))
  /\ \A p \in Pids : WF_vars(child[p].kill /\ ChildExit(p))

FairSpec == Spec /\ Fairness


(* ---- the monitor (src/cronmon/monitor.go), one service file ----------- *)
\* The fields NewProcess initialises, and the rest of the supervisor's world.
procFields == <<cancelled, lp, restart, proc, dead, done, mu, timerSet, start,
                timerAt, afterAt, backoff, resetTime, stopPid, lastNoop>>
procWorld  == <<impl, crashed, now, gr, nCmds, nStops, stopWait, stopRes,
                jAtStop>>

\* The pid the previous instance recorded for the file.
PrevPid == 1

\* NewMonitor / RestoreMonitor have returned: the loop runs, no
\* supervisor exists, the startup goroutine has not run yet.  On the restore
\* path the child of the previous instance has pid PrevPid; it is alive or
\* has exited, and the path of its status file exists or not.
MonStart ==
  /\ NoFunctions
  /\ mode \in {"new", "restore"}
  /\ impl = "evch"
  /\ cancelled = FALSE
  /\ crashed = FALSE
  /\ lp = "none"
  /\ restart = FALSE
  /\ proc = 0
  /\ dead = 0
  /\ done = "none"
  /\ mu = "free"
  /\ timerSet = FALSE
  /\ start = "nil"
  /\ timerAt = 0
  /\ afterAt = 0
  /\ backoff = -1
  /\ resetTime = -1
  /\ now = 0
  /\ gr = [p \in Pids |-> NoGr]
  /\ journal = <<>>
  /\ nCmds = 0
  /\ nStops = 0
  /\ stopWait = 0
  /\ stopRes = "none"
  /\ jAtStop = -1
  /\ stopPid = 0
  /\ lastNoop = FALSE
  /\ IF mode = "new"
       THEN /\ child = [p \in Pids |-> NoChild]
            /\ nAttempts = 0
            /\ statusFile = FALSE
            /\ rpc = "acquire"
       ELSE /\ \E c \in {[NoChild EXCEPT !.st = "alive", !.kind = k] : k \in Kinds}
                          \cup {[NoChild EXCEPT !.st = "dead"]} :
                 child = [p \in Pids |-> IF p = PrevPid THEN c ELSE NoChild]
            /\ nAttempts = PrevPid
            /\ statusFile \in BOOLEAN
            /\ rpc = "readPrev"
  /\ mctx = FALSE
  /\ mpc = "select"
  /\ mcmd = 0
  /\ known = FALSE
  /\ rpid = 0
  /\ nEvents = 0
  /\ lastEv = "none"
  /\ firstCmd = "none"

\* The monitor with a watcher whose init() has succeeded.
MonInit ==
  /\ MonStart
  /\ wpc = "watching"

\* addFile for a file that is not in m.procs: NewProcess(m.ctx, ...) starts
\* the supervisor's loop with a context derived from the monitor's, the
\* supervisor is stored in the map, and p.Start() or p.Takeover(oldPID) is
\* called next.
addFile(oldPID) ==
  /\ known' = TRUE
  /\ mcmd' = oldPID
  /\ mpc' = "addCmd"
  /\ cancelled' = mctx
  /\ lp' = "select"
  /\ restart' = FALSE
  /\ proc' = 0
  /\ dead' = 0
  /\ done' = "none"
  /\ mu' = "free"
  /\ timerSet' = FALSE
  /\ start' = "nil"
  /\ timerAt' = 0
  /\ afterAt' = 0
  /\ backoff' = -1
  /\ resetTime' = -1
  /\ stopPid' = 0
  /\ lastNoop' = FALSE

\* `case ev := <-m.watch.Events:` with ev.Op = EventProcessListAdd.
MonAddWithin(n) ==
  /\ ~crashed
  /\ mpc = "select"
  /\ nEvents < n
  /\ wpc = "watching"
  /\ nEvents' = nEvents + 1
  /\ IF known
       THEN /\ lastEv' = "addKnown"
            /\ UNCHANGED <<known, mcmd, mpc, procFields>>
       ELSE /\ addFile(0)
            /\ lastEv' = "none"
  /\ UNCHANGED <<fvars, procWorld, child, nAttempts, statusFile, journal, mode, mctx,
                 rpc, rpid, firstCmd>>

\* An Add handler whose addFile does not look the file up in m.procs first.
MonAddUnchecked ==
  /\ ~crashed
  /\ mpc = "select"
  /\ nEvents < MaxEvents
  /\ wpc = "watching"
  /\ nEvents' = nEvents + 1
  /\ addFile(0)
  /\ lastEv' = "none"
  /\ UNCHANGED <<fvars, procWorld, child, nAttempts, statusFile, journal, mode, mctx,
                 rpc, rpid, firstCmd>>

MonAdd == MonAddWithin(MaxEvents)

\* Process.Start() / Process.Takeover(pid) called by addFile:
\* `select { case proc.evCh <- fn: case <-proc.ctx.Done(): }`.  The
\* supervisor's loop receives the command and runs it, or the context is done
\* and the call returns without sending.
MonSendCmd ==
  /\ ~crashed
  /\ mpc = "addCmd"
  /\ \/ /\ lp = "select"
        /\ firstCmd' = IF firstCmd # "none" THEN firstCmd
                       ELSE IF mcmd = 0 THEN "start" ELSE "takeover"
        /\ IF mcmd = 0
             THEN start_evch
             ELSE /\ takeover(mcmd, child, nAttempts)
                  /\ UNCHANGED <<lastNoop, statusFile>>
     \/ /\ cancelled
        /\ UNCHANGED <<firstCmd, lastNoop, statusFile, proc, dead, journal, lp,
                       child, nAttempts>>
  /\ mpc' = "select"
  /\ mcmd' = 0
  /\ lastEv' = "add"
  /\ UNCHANGED <<fvars, procWorld, cancelled, restart, done, mu, timerSet, start,
                 timerAt, afterAt, backoff, resetTime, stopPid, mode, mctx,
                 known, rpc, rpid, nEvents>>

\* `case ev := <-m.watch.Events:` with ev.Op = EventProcessListRemove:
\* removeFile.  For a known file p.Stop() cancels the supervisor's context
\* and blocks in `<-proc.done`; for an unknown one a warning is journaled.
MonRemoveWithin(n) ==
  /\ ~crashed
  /\ mpc = "select"
  /\ nEvents < n
  /\ wpc = "watching"
  /\ nEvents' = nEvents + 1
  /\ IF known
       THEN /\ cancelled' = TRUE
            /\ mpc' = "removeStop"
            /\ lastEv' = "none"
            /\ UNCHANGED journal
       ELSE /\ journal' = Write(journal, EventWarning)
            /\ lastEv' = "removeUnknown"
            /\ UNCHANGED <<cancelled, mpc>>
  /\ UNCHANGED <<fvars, procWorld, lp, restart, proc, dead, done, mu, timerSet, start,
                 timerAt, afterAt, backoff, resetTime, stopPid, lastNoop,
                 child, nAttempts, statusFile, mode, mctx, mcmd, known, rpc,
                 rpid, firstCmd>>

MonRemove == MonRemoveWithin(MaxEvents)

\* `case ev := <-m.watch.Events:` with ev.Op = EventProcessListUpdate:
\* restartFile.  For a known file p.Stop() comes first.
MonUpdateWithin(n) ==
  /\ ~crashed
  /\ mpc = "select"
  /\ nEvents < n
  /\ wpc = "watching"
  /\ nEvents' = nEvents + 1
  /\ IF known
       THEN /\ cancelled' = TRUE
            /\ mpc' = "restartStop"
            /\ lastEv' = "none"
            /\ UNCHANGED journal
       ELSE /\ journal' = Write(journal, EventWarning)
            /\ lastEv' = "updateUnknown"
            /\ UNCHANGED <<cancelled, mpc>>
  /\ UNCHANGED <<fvars, procWorld, lp, restart, proc, dead, done, mu, timerSet, start,
                 timerAt, afterAt, backoff, resetTime, stopPid, lastNoop,
                 child, nAttempts, statusFile, mode, mctx, mcmd, known, rpc,
                 rpid, firstCmd>>

\* A restartFile that does not look the file up in m.procs: it calls Stop on
\* whatever the map yields.
MonUpdateUnchecked ==
  /\ ~crashed
  /\ mpc = "select"
  /\ nEvents < MaxEvents
  /\ wpc = "watching"
  /\ nEvents' = nEvents + 1
  /\ cancelled' = TRUE
  /\ mpc' = "restartStop"
  /\ lastEv' = "none"
  /\ UNCHANGED <<fvars, procWorld, lp, restart, proc, dead, done, mu, timerSet, start,
                 timerAt, afterAt, backoff, resetTime, stopPid, lastNoop,
                 child, nAttempts, statusFile, journal, mode, mctx, mcmd,
                 known, rpc, rpid, firstCmd>>

MonUpdate == MonUpdateWithin(MaxEvents)

\* removeFile that deletes the map entry without waiting for p.Stop().
MonRemoveUnwaited ==
  /\ ~crashed
  /\ mpc = "removeStop"
  /\ done' = "none"
  /\ known' = FALSE
  /\ mpc' = "select"
  /\ lastEv' = "remove"
  /\ UNCHANGED <<fvars, procWorld, cancelled, lp, restart, proc, dead, mu, timerSet,
                 start, timerAt, afterAt, backoff, resetTime, stopPid,
                 lastNoop, child, nAttempts, statusFile, journal, mode, mctx,
                 mcmd, rpc, rpid, nEvents, firstCmd>>

\* p.Stop() returns in removeFile: `delete(m.procs, file)`.
MonRemoveStopped ==
  /\ ~crashed
  /\ mpc = "removeStop"
  /\ done # "none"
  /\ done' = "none"
  /\ known' = FALSE
  /\ mpc' = "select"
  /\ lastEv' = "remove"
  /\ UNCHANGED <<fvars, procWorld, cancelled, lp, restart, proc, dead, mu, timerSet,
                 start, timerAt, afterAt, backoff, resetTime, stopPid,
                 lastNoop, child, nAttempts, statusFile, journal, mode, mctx,
                 mcmd, rpc, rpid, nEvents, firstCmd>>

\* p.Stop() returns in restartFile and p.Start() is called on the same
\* supervisor: its loop has returned after sending on proc.done, nothing
\* receives from proc.evCh any more, and its context is done, so Start takes
\* `case <-proc.ctx.Done():` and returns.
MonRestartStopped ==
  /\ ~crashed
  /\ mpc = "restartStop"
  /\ done # "none"
  /\ done' = "none"
  /\ mpc' = "select"
  /\ lastEv' = "update"
  /\ UNCHANGED <<fvars, procWorld, cancelled, lp, restart, proc, dead, mu, timerSet,
                 start, timerAt, afterAt, backoff, resetTime, stopPid,
                 lastNoop, child, nAttempts, statusFile, journal, mode, mctx,
                 mcmd, known, rpc, rpid, nEvents, firstCmd>>

\* A restore goroutine that goes on with a recovered pid after the error.
MonReadPreviousKeepsPid ==
  /\ ~crashed
  /\ rpc = "readPrev"
  /\ \/ /\ journal' = Write(journal, EventWarning)
        /\ mode' = "fallback"
        /\ rpid' = PrevPid
     \/ /\ rpid' \in {0, PrevPid}
        /\ UNCHANGED <<journal, mode>>
  /\ rpc' = "acquire"
  /\ UNCHANGED <<fvars, procWorld, procFields, child, nAttempts, statusFile, mctx, mpc,
                 mcmd, known, nEvents, lastEv, firstCmd>>

\* RestoreMonitor's goroutine: ReadPreviousState(j).  On an error it journals
\* a warning and falls back to RescanDir; otherwise the previous state has a
\* pid for the file or has none.
MonReadPrevious ==
  /\ ~crashed
  /\ rpc = "readPrev"
  /\ \/ /\ journal' = Write(journal, EventWarning)
        /\ mode' = "fallback"
        /\ rpid' = 0
     \/ /\ rpid' \in {0, PrevPid}
        /\ UNCHANGED <<journal, mode>>
  /\ rpc' = "acquire"
  /\ UNCHANGED <<fvars, procWorld, procFields, child, nAttempts, statusFile, mctx, mpc,
                 mcmd, known, nEvents, lastEv, firstCmd>>

\* The startup path emits Acquired once the watcher and the loop run, before
\* the directory is scanned.
MonAcquire ==
  /\ ~crashed
  /\ rpc = "acquire"
  /\ journal' = Write(journal, EventAcquired)
  /\ rpc' = "readDir"
  /\ UNCHANGED <<fvars, procWorld, procFields, child, nAttempts, statusFile, mode,
                 mctx, mpc, mcmd, known, rpid, nEvents, lastEv, firstCmd>>

\* m.readDir(): an error is journaled as a warning and yields no files; the
\* file is in the directory or it is not.  With no files the goroutine ends.
MonReadDir ==
  /\ ~crashed
  /\ rpc = "readDir"
  /\ \/ /\ journal' = Write(journal, EventWarning)
        /\ rpc' = "done"
     \/ /\ rpc' \in {"send", "done"}
        /\ UNCHANGED journal
  /\ UNCHANGED <<fvars, procWorld, procFields, child, nAttempts, statusFile, mode,
                 mctx, mpc, mcmd, known, rpid, nEvents, lastEv, firstCmd>>

\* sendFunc / `case fn := <-m.ctrl: fn()`: the loop runs the closure, which
\* calls addFile(file, pid) with the recovered pid (0 on the rescan path).
MonCtrl ==
  /\ ~crashed
  /\ rpc = "send"
  /\ mpc = "select"
  /\ rpc' = "ran"
  /\ IF known
       THEN /\ lastEv' = "addKnown"
            /\ UNCHANGED <<known, mcmd, mpc, procFields>>
       ELSE /\ addFile(rpid)
            /\ lastEv' = "none"
  /\ UNCHANGED <<fvars, procWorld, child, nAttempts, statusFile, journal, mode, mctx,
                 rpid, nEvents, firstCmd>>

\* sendFunc: `case <-m.ctx.Done():` the closure is dropped.
MonCtrlDropped ==
  /\ ~crashed
  /\ rpc = "send"
  /\ mctx
  /\ rpc' = "done"
  /\ UNCHANGED <<fvars, procWorld, procFields, child, nAttempts, statusFile, journal,
                 mode, mctx, mpc, mcmd, known, rpid, nEvents, lastEv, firstCmd>>

\* The monitor's context is cancelled (a signal in main.start); so is the
\* context of the supervisor, which is derived from it.
MonCancel ==
  /\ ~crashed
  /\ ~mctx
  /\ mctx' = TRUE
  /\ cancelled' = TRUE
  /\ UNCHANGED <<fvars, procWorld, lp, restart, proc, dead, done, mu, timerSet, start,
                 timerAt, afterAt, backoff, resetTime, stopPid, lastNoop,
                 child, nAttempts, statusFile, journal, mode, mpc, mcmd, known,
                 rpc, rpid, nEvents, lastEv, firstCmd>>

\* `case <-ctx.Done():` stop each supervisor, then write Quit and acknowledge
\* on m.done, which lets Monitor.Stop (deferred in main.start) return: mpc =
\* "exit".  With a supervisor in the map the loop calls its Stop and blocks
\* in it.
MonCtxDone ==
  /\ ~crashed
  /\ mpc = "select"
  /\ mctx
  /\ IF known
       THEN /\ mpc' = "quitStop"
            /\ UNCHANGED journal
       ELSE /\ mpc' = "exit"
            /\ journal' = Write(journal, EventQuit)
  /\ lastEv' = "none"
  /\ UNCHANGED <<fvars, procWorld, procFields, child, nAttempts, statusFile, mode,
                 mctx, mcmd, known, rpc, rpid, nEvents, firstCmd>>

\* The supervisor's Stop returns in the cancellation branch: write Quit and
\* acknowledge.
MonQuitStopped ==
  /\ ~crashed
  /\ mpc = "quitStop"
  /\ done # "none"
  /\ done' = "none"
  /\ journal' = Write(journal, EventQuit)
  /\ mpc' = "exit"
  /\ UNCHANGED <<fvars, procWorld, cancelled, lp, restart, proc, dead, mu, timerSet,
                 start, timerAt, afterAt, backoff, resetTime, stopPid,
                 lastNoop, child, nAttempts, statusFile, mode, mctx, mcmd,
                 known, rpc, rpid, nEvents, lastEv, firstCmd>>

\* The backoff timer restarts the service for ever; the restarts explored
\* under a monitor are capped one below the pids available, which leaves a
\* pid for a supervisor created later.
MonNext ==
  \/ MonAdd
  \/ MonSendCmd
  \/ MonRemove
  \/ MonUpdate
  \/ MonRemoveStopped
  \/ MonRestartStopped
  \/ MonReadPrevious
  \/ MonAcquire
  \/ MonReadDir
  \/ MonCtrl
  \/ MonCtrlDropped
  \/ MonCancel
  \/ MonCtxDone
  \/ MonQuitStopped
  \/ LoopStartWaiting
  \/ (nAttempts < MaxAttempts - 1 /\ LoopStart)
  \/ LoopDead
  \/ LoopCtxDone
  \/ LoopStopTimeout
  \/ LoopStopDead
  \/ Tick
  \/ \E p \in Pids : ChildExit(p)
  \/ \E g \in Pids : GrLoad(g)
  \/ \E g \in Pids : GrWait(g)
  \/ \E g \in Pids : GrWrite(g)
  \/ \E g \in Pids : GrSend(g)

MonSpec == MonInit /\ [][MonNext]_vars

\* Scheduling of the monitor: its goroutines run when they can.
MonFairness ==
  /\ WF_vars(MonSendCmd)
  /\ WF_vars(MonRemoveStopped)
  /\ WF_vars(MonRestartStopped)
  /\ WF_vars(MonQuitStopped)
  /\ WF_vars(MonReadPrevious)
  /\ WF_vars(MonAcquire)
  /\ WF_vars(MonReadDir)
  /\ SF_vars(MonCtrl)
  /\ SF_vars(MonCtxDone)

FairMonSpec == MonSpec /\ Fairness /\ MonFairness

(* ---- properties ------------------------------------------------------ *)
IsSpawned(i, p) == journal[i][1] = "spawned" /\ journal[i][2] = p
IsExited(i, p)  == journal[i][1] = "exited" /\ journal[i][2] = p

\* Children started by this supervisor (not adopted) that are alive.
Own == {p \in Pids : child[p].st = "alive" /\ child[p].own}

\* C1: at no time are two children started by the supervisor alive at once.
C1_OneLiveChild == Cardinality(Own) <= 1

\* C2: when Stop() returns, every ProcessSpawned in the journal is followed
\* by a ProcessExited with the same pid.
C2_ExitJournaledAtStop ==
  jAtStop >= 0 =>
    \A i \in 1..jAtStop : \A p \in Pids :
      IsSpawned(i, p) => \E j \in (i + 1)..jAtStop : IsExited(j, p)

\* C3: a ProcessExited of a pid is never journaled before the ProcessSpawned
\* of that pid.
C3_SpawnedBeforeExited ==
  \A i \in 1..Len(journal) : \A p \in Pids :
    IsExited(i, p) => \E j \in 1..(i - 1) : IsSpawned(j, p)

\* C4: the first Stop() call eventually returns (a child that was sent
\* SIGKILL exits; see Fairness).
C4_StopReturns == (nStops = 1 /\ stopWait > 0) ~> (stopRes # "none")

\* C5: after Stop() has returned the supervisor writes nothing to the journal.
C5_QuietAfterStop == jAtStop >= 0 => Len(journal) = jAtStop

\* C6: when Stop() returns the timeout error, the child it signalled has been
\* sent SIGKILL, has exited, and the journal ends with its ProcessSpawned and
\* its ProcessExited (exit code -1 for a child that only SIGKILL can end).
C6_KillTimeout ==
  stopRes = "timeout" =>
    /\ stopPid # 0
    /\ child[stopPid].kill
    /\ child[stopPid].st = "dead"
    /\ jAtStop >= 2
    /\ IsSpawned(jAtStop - 1, stopPid)
    /\ IsExited(jAtStop, stopPid)
    /\ (child[stopPid].kind = "stubborn" => journal[jAtStop][3] = -1)

\* C7: when Stop() of a supervisor that owned a child returns no error, the
\* child was not sent SIGKILL, the journal ends with its ProcessSpawned and
\* its ProcessExited with exit code 0, and nothing is journaled afterwards.
C7_GracefulStop ==
  (stopRes = "nil" /\ stopPid # 0) =>
    /\ ~child[stopPid].kill
    /\ jAtStop >= 2
    /\ IsSpawned(jAtStop - 1, stopPid)
    /\ journal[jAtStop] = EventProcessExited(stopPid, 0)
    /\ Len(journal) = jAtStop

\* Between two ProcessSpawned records lies the ProcessExited of the first.
PairsInOrder ==
  \A i \in 1..Len(journal) : \A j \in (i + 1)..Len(journal) :
    (journal[i][1] = "spawned" /\ journal[j][1] = "spawned") =>
      \E k \in (i + 1)..(j - 1) : IsExited(k, journal[i][2])

\* C8: after the latest child has exited while the supervisor is not stopped,
\* a new start attempt is eventually made (unless Stop is called first), and
\* the journal holds one ProcessSpawned / ProcessExited pair per child, in
\* order.
C8_AutoRestart ==
  /\ \A p \in 1..(MaxAttempts - 1) :
       (child[p].st = "dead" /\ child[p].own /\ ~cancelled /\ nAttempts = p)
         ~> (nAttempts > p \/ cancelled)
  /\ []PairsInOrder

\* C9: a Stop() call on a stopped supervisor does not block: no caller waits
\* on proc.done after the loop has returned and the channel is empty.
C9_StopIdempotent == ~(stopWait > 0 /\ lp = "exit" /\ done = "none")

SingleCommandSafety ==
  (nCmds <= 1) =>
    /\ C1_OneLiveChild
    /\ C2_ExitJournaledAtStop
    /\ C3_SpawnedBeforeExited
    /\ C5_QuietAfterStop
    /\ C6_KillTimeout
    /\ C7_GracefulStop

\* With at most one command, the first Stop() returns (under FairSpec).
SingleCommandStopReturns ==
  (nStops = 1 /\ stopWait > 0 /\ nCmds <= 1)
    ~> (stopRes # "none" \/ nCmds > 1)

\* With at most one command, an exited child is followed by a new start
\* attempt and the journal pairs are in order (under FairSpec).
SingleCommandAutoRestart ==
  /\ \A p \in 1..(MaxAttempts - 1) :
       (child[p].st = "dead" /\ child[p].own /\ ~cancelled /\ nAttempts = p
          /\ nCmds <= 1)
         ~> (nAttempts > p \/ cancelled \/ nCmds > 1)
  /\ [](nCmds <= 1 => PairsInOrder)

(* ---- properties of the monitor ---------------------------------------- *)
\* C11: after an Update event for a known service has been handled, a new
\* child of the service is eventually spawned (unless the monitor is
\* cancelled or the file is removed first).
C11_UpdateRestarts ==
  \A n \in 0..(MaxAttempts - 1) :
    (lastEv = "update" /\ nAttempts = n /\ ~mctx)
      ~> (nAttempts > n \/ mctx \/ ~known)

C13_OneSupervisor ==
  /\ [][(known /\ (MonAdd \/ MonCtrl))
          => UNCHANGED <<known, mpc, mcmd, procFields, child, nAttempts,
                         journal>>]_vars
  /\ [][(~known /\ MonAdd)
          => (known' /\ lp' = "select" /\ mpc' = "addCmd" /\ mcmd' = 0)]_vars
  /\ []C1_OneLiveChild

\* An Add for a known file has just been handled while its child is alive.
C13_Witness == lastEv = "addKnown" /\ proc # 0 /\ child[proc].st = "alive"

\* C14: an Update or a Remove event for a file that is not known appends one
\* Warning to the journal and changes nothing else: not the map, not the
\* supervisor state, not the process table.
C14_UnknownWarns ==
  [][(~known /\ (MonUpdate \/ MonRemove))
       => /\ journal' = Append(journal, EventWarning)
          /\ UNCHANGED <<known, mpc, mcmd, procFields, child, nAttempts,
                         statusFile>>]_vars

\* An Update or a Remove for an unknown file has just been handled.
C14_Witness ==
  /\ lastEv \in {"updateUnknown", "removeUnknown"}
  /\ ~known
  /\ Len(journal) > 0
  /\ journal[Len(journal)] = EventWarning

\* The constructor has returned the *Monitor, so its Stop can be called: on
\* the new path Acquired has been emitted by then.
Constructed == mode = "new" => rpc # "acquire"

QuitAfterProcessRecords ==
  mpc = "exit" =>
    \E q \in 1..Len(journal) :
      /\ journal[q] = EventQuit
      /\ \A i \in (q + 1)..Len(journal) :
           journal[i][1] \in {"warning", "acquired"}

\* A cancelled monitor eventually acknowledges its stop (under FairMonSpec).
MonitorQuits == mctx ~> (mpc = "exit")

\* C16: every ProcessSpawned in the journal of the instance is preceded by
\* the Acquired of the instance.
C16_AcquiredFirst ==
  \A i \in 1..Len(journal) :
    journal[i][1] = "spawned" => \E j \in 1..(i - 1) : journal[j] = EventAcquired

\* C17: on the restore path, when the file is in the directory and the
\* previous state has a pid for it (the restore closure calls addFile with
\* that pid), the first command the monitor sends for the file is
\* takeover(pid), never start().
C17_TakeoverFirst ==
  (mode = "restore" /\ rpid # 0 /\ rpc \in {"send", "ran"})
    => firstCmd # "start"

\* Without a watcher event before it, the restore closure sends Takeover for
\* a file with a recovered pid and Start for a file without one.
RestoreClosureCommand ==
  (mode = "restore" /\ rpc = "ran" /\ nEvents = 0 /\ firstCmd # "none")
    => firstCmd = (IF rpid # 0 THEN "takeover" ELSE "start")

\* C18: when reading the previous state fails on restore, a Warning is
\* written and the monitor goes on as a fresh start: the file found by the
\* rescan gets a supervisor that is sent Start, and nothing is taken over.
C18_RestoreFallback ==
  /\ [](mode = "fallback" =>
         /\ \E i \in 1..Len(journal) : journal[i] = EventWarning
         /\ rpid = 0
         /\ mcmd = 0
         /\ firstCmd # "takeover"
         /\ (proc # 0 => child[proc].own))
  /\ [][(mode = "fallback" /\ ~known /\ MonCtrl)
          => (known' /\ lp' = "select" /\ mpc' = "addCmd" /\ mcmd' = 0)]_vars
  /\ [][(mode = "fallback" /\ ~cancelled /\ MonSendCmd)
          => (firstCmd' = "start" /\ nAttempts' = nAttempts + 1)]_vars

\* The fallback has run its closure and the supervisor it created has
\* spawned a new child while the previous child is still alive.
C18_Witness ==
  /\ mode = "fallback"
  /\ rpc = "ran"
  /\ firstCmd = "start"
  /\ proc # 0
  /\ child[proc].own
  /\ child[proc].st = "alive"

\* C19: when the monitor restores a service by takeover(pid), the child of
\* the previous instance and a child freshly spawned for the same service are
\* never alive together.
C19_NoSecondChild ==
  (mode = "restore" /\ firstCmd = "takeover")
    => ~(child[PrevPid].st = "alive" /\ Own # {})

\* After a takeover the monitor sent, a supervisor without a process makes a
\* fresh start attempt, unless it is stopped first (under FairMonSpec).
TakeoverFailureRestarts ==
  (mode = "restore" /\ firstCmd = "takeover" /\ known /\ proc = 0
     /\ nAttempts = PrevPid /\ ~cancelled)
    ~> (nAttempts > PrevPid \/ cancelled)

\* C20: a takeover that fails because the status file is missing adopts no
\* process and appends a ProcessTakeoverError to the journal; the service
\* counts as dead and a fresh start attempt eventually follows.
C20_TakeoverFailure ==
  /\ [][(MonSendCmd /\ mcmd # 0 /\ ~cancelled /\ ~statusFile)
          => /\ proc' = 0
             /\ journal' = Append(journal, EventProcessTakeoverError)]_vars
  /\ TakeoverFailureRestarts

(***************************************************************************)
(* ReadPreviousState (src/cronmon/journal.go:29-69), run on its own over a *)
(* JournalReader that yields a bounded list of records, newest first, and  *)
(* then an error, as the mockReader of src/cronmon/journal_test.go does.   *)
(***************************************************************************)
Files   == {"a", "b"}
LogPids == {1, 2}

\* The events a journal holds; the fields ReadPreviousState does not read
\* (exit code, error text) are left out.
LogSpawned(f, p) == [type |-> "ProcessSpawned", file |-> f, pid |-> p]
LogExited(f, p)  == [type |-> "ProcessExited", file |-> f, pid |-> p]
LogAcquired      == [type |-> "Acquired", file |-> "", pid |-> 0]
LogQuit          == [type |-> "Quit", file |-> "", pid |-> 0]
LogWarning       == [type |-> "Warning", file |-> "", pid |-> 0]
LogEvents ==
  {LogSpawned(f, p) : f \in Files, p \in LogPids}
  \cup {LogExited(f, p) : f \in Files, p \in LogPids}
  \cup {LogAcquired, LogQuit, LogWarning}

\* The supervisor and the monitor do not exist.
NoProcess ==
  /\ impl = "evch"
  /\ cancelled = FALSE
  /\ crashed = FALSE
  /\ lp = "none"
  /\ restart = FALSE
  /\ proc = 0
  /\ dead = 0
  /\ done = "none"
  /\ mu = "free"
  /\ timerSet = FALSE
  /\ start = "nil"
  /\ timerAt = 0
  /\ afterAt = 0
  /\ backoff = -1
  /\ resetTime = -1
  /\ now = 0
  /\ child = [p \in Pids |-> NoChild]
  /\ gr = [p \in Pids |-> NoGr]
  /\ journal = <<>>
  /\ nAttempts = 0
  /\ nCmds = 0
  /\ nStops = 0
  /\ stopWait = 0
  /\ stopRes = "none"
  /\ jAtStop = -1
  /\ stopPid = 0
  /\ lastNoop = FALSE
  /\ statusFile = FALSE
  /\ NoMonitor

\* mockReader.Read: the next record with its time, or the reader's error.
\* The time of a record is its position in the journal, oldest = 1.
Read ==
  IF cursor >= Len(events)
    THEN [event |-> LogWarning, time |-> 0, err |-> readErr]
    ELSE [event |-> events[cursor + 1], time |-> Len(events) - cursor,
          err |-> "nil"]

\* state.Processes[file] = pid on a Go map.
MapSet(m, f, p) == [x \in DOMAIN m \cup {f} |-> IF x = f THEN p ELSE m[x]]

\* PreviousState{Processes: map[string]int{}}.
NoState == [Processes |-> [x \in {} |-> 0], StartedAt |-> 0]

\* ReadPreviousState has been called: its locals are initialised and the
\* reader is at the newest record.
ReaderInit ==
  /\ NoProcess
  /\ NoLock
  /\ NoBackoff
  /\ NoScanner
  /\ NoOthers
  /\ events \in UNION {[1..n -> LogEvents] : n \in 0..MaxLog}
  /\ readErr \in {"EOF", "EIO"}
  /\ cursor = 0
  /\ hasQuit = FALSE
  /\ deleted = {}
  /\ state = NoState
  /\ ret = [nil |-> TRUE, state |-> NoState, err |-> "none"]

\* The Spawned case without the test of hasQuit.
RecordSpawnedAfterQuit(data) ==
  IF data.pid \notin deleted
    THEN [state EXCEPT !.Processes = MapSet(@, data.file, data.pid)]
    ELSE state

\* The Spawned case of the switch.
RecordSpawned(data) ==
  IF ~hasQuit /\ data.pid \notin deleted
    THEN [state EXCEPT !.Processes = MapSet(@, data.file, data.pid)]
    ELSE state

\* The reader error is returned whatever it is.
ReadErrorUnchanged(err) ==
  [nil |-> TRUE, state |-> NoState, err |-> err]

\* What ReadPreviousState returns for a reader error.
ReadError(err) ==
  [nil |-> TRUE, state |-> NoState,
   err |-> IF err = "EOF" THEN "ErrUnexpectedEOF" ELSE err]

\* The Acquired case goes on reading instead of returning.
ReturnStateLater(st) == [nil |-> TRUE, state |-> NoState, err |-> "none"]

\* return &state, nil
ReturnState(st) == [nil |-> FALSE, state |-> st, err |-> "nil"]

\* One iteration of the loop of ReadPreviousState.
ReadPreviousState ==
  /\ ret.err = "none"
  /\ LET r == Read IN
     /\ cursor' = IF r.err = "nil" THEN cursor + 1 ELSE cursor
     /\ IF r.err # "nil"
          THEN /\ ret' = ReadError(r.err)
               /\ UNCHANGED <<hasQuit, deleted, state>>
          ELSE CASE r.event.type = "Acquired" ->
                      /\ state' = [state EXCEPT !.StartedAt = r.time]
                      /\ ret' = ReturnState(state')
                      /\ UNCHANGED <<hasQuit, deleted>>
                 [] r.event.type = "Quit" ->
                      /\ hasQuit' = TRUE
                      /\ UNCHANGED <<deleted, state, ret>>
                 [] r.event.type = "ProcessExited" ->
                      /\ deleted' = deleted \cup {r.event.pid}
                      /\ UNCHANGED <<hasQuit, state, ret>>
                 [] r.event.type = "ProcessSpawned" ->
                      /\ state' = RecordSpawned(r.event)
                      /\ UNCHANGED <<hasQuit, deleted, ret>>
                 [] OTHER ->
                      UNCHANGED <<hasQuit, deleted, state, ret>>
  /\ UNCHANGED <<ovars, lvars, bvars, svars, events, readErr, statusFile, mvars, impl, cancelled, crashed,
                 lp, restart, proc, dead, done, mu, timerSet, start, timerAt,
                 afterAt, backoff, resetTime, now, child, gr, journal,
                 nAttempts, nCmds, nStops, stopWait, stopRes, jAtStop,
                 stopPid, lastNoop>>

ReaderNext == ReadPreviousState

ReaderSpec == ReaderInit /\ [][ReaderNext]_vars

(* ---- properties of ReadPreviousState ---------------------------------- *)
\* Positions are counted in read order: 1 is the newest record.
\* The position of the Acquired record that ends the previous run, or one
\* past the end when there is none.
AcquiredAt ==
  LET A == {i \in 1..Len(events) : events[i].type = "Acquired"}
  IN IF A = {} THEN Len(events) + 1 ELSE CHOOSE i \in A : \A j \in A : i <= j

\* The Spawned records of the file in the previous run that no newer Quit
\* and no newer Exited record of the same pid precedes in read order.
Qualifying(f) ==
  {i \in 1..(AcquiredAt - 1) :
     /\ events[i] \in {LogSpawned(f, p) : p \in LogPids}
     /\ \A j \in 1..(i - 1) :
          /\ events[j].type # "Quit"
          /\ ~(events[j].type = "ProcessExited" /\ events[j].pid = events[i].pid)}

Newest(S) == CHOOSE i \in S : \A j \in S : i <= j
Oldest(S) == CHOOSE i \in S : \A j \in S : i >= j

\* C21: when ReadPreviousState returns a state, StartedAt is the time of the
\* Acquired record and, for every file, processes[file] is the pid of the
\* newest qualifying ProcessSpawned record of the file (an older record never
\* replaces it); a file without a qualifying record has no entry.
C21_NewestSpawnedWins ==
  ret.err = "nil" =>
    /\ ~ret.nil
    /\ ret.state.StartedAt = Len(events) - AcquiredAt + 1
    /\ \A f \in Files :
         IF Qualifying(f) = {}
           THEN f \notin DOMAIN ret.state.Processes
           ELSE /\ f \in DOMAIN ret.state.Processes
                /\ ret.state.Processes[f] = events[Newest(Qualifying(f))].pid

\* What the code computes instead: the oldest qualifying record wins.
OldestSpawnedWins ==
  ret.err = "nil" =>
    /\ ~ret.nil
    /\ ret.state.StartedAt = Len(events) - AcquiredAt + 1
    /\ \A f \in Files :
         IF Qualifying(f) = {}
           THEN f \notin DOMAIN ret.state.Processes
           ELSE /\ f \in DOMAIN ret.state.Processes
                /\ ret.state.Processes[f] = events[Oldest(Qualifying(f))].pid

\* The record at position i is a Spawned record of the previous run and no
\* newer Exited record names its pid.
SpawnedNotExited(i) ==
  /\ i < AcquiredAt
  /\ events[i].type = "ProcessSpawned"
  /\ \A j \in 1..(i - 1) :
       ~(events[j].type = "ProcessExited" /\ events[j].pid = events[i].pid)

\* The first half of C22 on its own: every returned pid comes from a Spawned
\* record of its file that no newer Exited record of the pid follows.
ExitedChildAbsent ==
  ret.err = "nil" =>
    \A f \in DOMAIN ret.state.Processes :
      \E i \in 1..Len(events) :
        /\ events[i] = LogSpawned(f, ret.state.Processes[f])
        /\ SpawnedNotExited(i)

\* C22: a returned pid never has an Exited record newer than its Spawned
\* record, and the child a file spawned last in a run that did not quit, with
\* no Exited record after it, is in the returned map.
C22_ExitedAbsentLivePresent ==
  /\ ExitedChildAbsent
  /\ ret.err = "nil" =>
       \A i \in 1..Len(events) :
         ( /\ SpawnedNotExited(i)
           /\ \A j \in 1..(i - 1) :
                /\ events[j].type # "Quit"
                /\ ~(events[j].type = "ProcessSpawned"
                     /\ events[j].file = events[i].file) )
         => /\ events[i].file \in DOMAIN ret.state.Processes
            /\ ret.state.Processes[events[i].file] = events[i].pid

\* C23: when the newest record of the journal is Quit and the journal holds
\* an Acquired record, ReadPreviousState returns a state without error and
\* its processes map is empty.
C23_QuitRecoversNothing ==
  ( /\ ret.err # "none"
    /\ Len(events) > 0
    /\ events[1] = LogQuit
    /\ AcquiredAt <= Len(events) )
  => /\ ret.err = "nil"
     /\ ~ret.nil
     /\ DOMAIN ret.state.Processes = {}

\* Such a journal has been read to its Acquired record, and between the Quit
\* and the Acquired record it holds a Spawned record without a newer Exited
\* record of its pid.
C23_Witness ==
  /\ ret.err = "nil"
  /\ events[1] = LogQuit
  /\ \E i \in 2..Len(events) : SpawnedNotExited(i)

\* C24: when the reader fails before an Acquired record has been read,
\* ReadPreviousState returns no state; the error is UnexpectedEOF when the
\* reader reported end-of-file and the reader's own error otherwise.
C24_ReadErrors ==
  (ret.err # "none" /\ AcquiredAt > Len(events))
  => /\ ret.nil
     /\ ret.state = NoState
     /\ readErr = "EOF" => ret.err = "ErrUnexpectedEOF"
     /\ readErr # "EOF" => ret.err = readErr

\* The journal ended without an Acquired record after a Spawned record had
\* been entered into the local state.
C24_Witness ==
  /\ ret.err = "ErrUnexpectedEOF"
  /\ ret.nil
  /\ DOMAIN state.Processes # {}

(***************************************************************************)
(* The command line (src/main.go:98-126) and the journal lock              *)
(* (src/cronmon/journal/journal.go:101-153).  Several invocations of       *)
(* `cronmon` run start() on the same journal path, as the crontab printed  *)
(* by cron() makes them do every minute.  The lock is flock(2), taken by   *)
(* flock.TryLock on a descriptor of its own: exclusive, non-blocking, and  *)
(* released by Unlock or by the exit of the process.  The directory and    *)
(* file operations of newFileLockJournaler succeed.                        *)
(***************************************************************************)
LockInit ==
  /\ NoProcess
  /\ NoReader
  /\ inv = [i \in Invs |-> NoInv]
  /\ lockedBy = 0
  /\ NoBackoff
  /\ NoScanner
  /\ NoOthers

LockFrame ==
  UNCHANGED <<ovars, rvars, bvars, svars, statusFile, mvars, impl, cancelled,
              crashed, lp, restart, proc, dead, done, mu, timerSet, start, timerAt, afterAt,
              backoff, resetTime, now, child, gr, journal, nAttempts, nCmds,
              nStops, stopWait, stopRes, jAtStop, stopPid, lastNoop>>

\* start() is entered; newFileLockJournaler creates the directory and opens
\* the file.
InvOpenFile(i) ==
  /\ inv[i].pc = "idle"
  /\ inv' = [inv EXCEPT ![i].pc = "opened"]
  /\ UNCHANGED lockedBy
  /\ LockFrame

\* l.TryLock() taken as always successful.
InvTryLockUnchecked(i) ==
  /\ inv[i].pc = "opened"
  /\ lockedBy' = i
  /\ inv' = [inv EXCEPT ![i].pc = "locked", ![i].err = "nil"]
  /\ LockFrame

\* l.TryLock() and the rest of newFileLockJournaler; on ErrLockedElsewhere
\* start() logs to stderr and returns nil.
InvTryLock(i) ==
  /\ inv[i].pc = "opened"
  /\ IF lockedBy = 0
       THEN /\ lockedBy' = i
            /\ inv' = [inv EXCEPT ![i].pc = "locked", ![i].err = "nil"]
       ELSE /\ inv' = [inv EXCEPT ![i].pc = "exited",
                                  ![i].err = "ErrLockedElsewhere",
                                  ![i].exit = "nil"]
            /\ UNCHANGED lockedBy
  /\ LockFrame

\* cronmon.NewMonitor returns a monitor, or fails and start() returns the
\* error after the deferred j.Close().
InvNewMonitor(i) ==
  /\ inv[i].pc = "locked"
  /\ \/ /\ inv' = [inv EXCEPT ![i].pc = "running", ![i].monitor = TRUE]
        /\ UNCHANGED lockedBy
     \/ /\ inv' = [inv EXCEPT ![i].pc = "exited", ![i].exit = "error"]
        /\ lockedBy' = 0
  /\ LockFrame

\* The monitor of a running invocation spawns a child.
InvSpawn(i) ==
  /\ inv[i].pc = "running"
  /\ ~inv[i].spawned
  /\ inv' = [inv EXCEPT ![i].spawned = TRUE]
  /\ UNCHANGED lockedBy
  /\ LockFrame

\* The monitor of a running invocation writes a record to the journal.
InvWrite(i) ==
  /\ inv[i].pc = "running"
  /\ inv[i].writes < MaxWrites
  /\ inv' = [inv EXCEPT ![i].writes = @ + 1]
  /\ UNCHANGED lockedBy
  /\ LockFrame

\* SIGINT / SIGTERM: start() returns nil after the deferred m.Stop() and
\* j.Close().
InvSignalled(i) ==
  /\ inv[i].pc = "running"
  /\ inv' = [inv EXCEPT ![i].pc = "exited", ![i].exit = "nil"]
  /\ lockedBy' = 0
  /\ LockFrame

\* The process is killed; the kernel closes its descriptors.
InvKilled(i) ==
  /\ inv[i].pc \in {"opened", "locked", "running"}
  /\ inv' = [inv EXCEPT ![i].pc = "exited", ![i].exit = "killed"]
  /\ lockedBy' = IF lockedBy = i THEN 0 ELSE lockedBy
  /\ LockFrame

LockNext ==
  \E i \in Invs :
    \/ InvOpenFile(i)
    \/ InvTryLock(i)
    \/ InvNewMonitor(i)
    \/ InvSpawn(i)
    \/ InvWrite(i)
    \/ InvSignalled(i)
    \/ InvKilled(i)

LockSpec == LockInit /\ [][LockNext]_vars

\* The invocations that hold a FileLockJournaler.
Holders == {i \in Invs : inv[i].pc \in {"locked", "running"}}

\* C25: at most one invocation holds the journal lock; a call of
\* NewFileLockJournaler made while another invocation holds it fails with
\* ErrLockedElsewhere, and an invocation that got ErrLockedElsewhere returns
\* success and has created no monitor, spawned no child and written no
\* record.
C25_JournalLock ==
  /\ [](Cardinality(Holders) <= 1)
  /\ [](\A i \in Invs :
          inv[i].err = "ErrLockedElsewhere" =>
            /\ inv[i].pc = "exited"
            /\ inv[i].exit = "nil"
            /\ ~inv[i].monitor
            /\ ~inv[i].spawned
            /\ inv[i].writes = 0)
  /\ [][\A i \in Invs :
          (inv[i].pc = "opened" /\ inv'[i].pc # "opened"
             /\ inv'[i].exit # "killed" /\ Holders # {})
          => inv'[i].err = "ErrLockedElsewhere"]_vars

\* An invocation has bailed out with ErrLockedElsewhere while another one
\* runs its monitor and has written to the journal.
C25_Witness ==
  \E i, j \in Invs :
    /\ inv[i].err = "ErrLockedElsewhere"
    /\ inv[j].pc = "running"
    /\ inv[j].writes > 0

(***************************************************************************)
(* The backoff of startMonitor (src/cronmon/process.go:206-264, the same   *)
(* code as src/unnamed/part_004:293-344) with an exact clock, for a        *)
(* supervisor whose startProc always fails, as in TestProcess/backoff      *)
(* (src/cronmon/process_test.go:60-94).  Time is measured from the         *)
(* present: now stays 0 and a tick moves resetTime and the deadline of the *)
(* timer one unit closer; resetTime = -1 stands for any time in the past.  *)
(* The journal keeps its newest MaxFails records.                          *)
(***************************************************************************)
Max(a, b) == IF a > b THEN a ELSE b

\* The ordered lists of durations a RetryBackoff field can hold.
BackoffLists ==
  {l \in UNION {[1..n -> 0..MaxDur] : n \in 1..MaxBackoffs} :
     \A i \in 1..(Len(l) - 1) : l[i] <= l[i + 1]}

\* EventProcessSpawnError{Reason: err.Error()}; the error of the spawner
\* tells the attempts apart.
SpawnErrorOf(attempt) == <<"spawnerr", attempt, 0>>

\* The newest MaxFails records of a journal.
KeepNewest(j) == IF Len(j) > MaxFails THEN Tail(j) ELSE j

\* NewProcess, RetryBackoff set, and Start(false) received by the loop.
BackoffInit ==
  /\ NoMonitor
  /\ NoReader
  /\ NoLock
  /\ NoScanner
  /\ NoOthers
  /\ retryBackoff \in BackoffLists
  /\ attempts = 0
  /\ spawnFor = -1
  /\ sinceFail = 0
  /\ impl = "mutex"
  /\ cancelled = FALSE
  /\ crashed = FALSE
  /\ lp = "select"
  /\ restart = FALSE
  /\ proc = 0
  /\ dead = 0
  /\ done = "none"
  /\ mu = "free"
  /\ timerSet = FALSE
  /\ start = "dummy"
  /\ timerAt = 0
  /\ afterAt = 0
  /\ backoff = -1
  /\ resetTime = -1
  /\ now = 0
  /\ child = [p \in Pids |-> NoChild]
  /\ gr = [p \in Pids |-> NoGr]
  /\ journal = <<>>
  /\ nAttempts = 0
  /\ nCmds = 1
  /\ nStops = 0
  /\ stopWait = 0
  /\ stopRes = "none"
  /\ jAtStop = -1
  /\ stopPid = 0
  /\ lastNoop = FALSE
  /\ statusFile = FALSE

BackoffFrame ==
  UNCHANGED <<ovars, rvars, lvars, svars, retryBackoff, statusFile, mvars, impl, cancelled,
              crashed, lp, restart, proc, done, afterAt, now, child, gr,
              nAttempts, nCmds, nStops, stopWait, stopRes, jAtStop, stopPid,
              lastNoop>>

\* `case <-start:` taken before the timer is due.
BoStartEarly ==
  /\ lp = "select"
  /\ start # "nil"
  /\ mu = "free"
  /\ mu' = "g"
  /\ spawnFor' = 0
  /\ attempts' = Min(attempts + 1, MaxFails)
  /\ timerSet' = FALSE
  /\ start' = "nil"
  /\ UNCHANGED <<dead, journal, backoff, resetTime, timerAt, sinceFail>>
  /\ BackoffFrame

\* `case <-start:` proc.start(restart) locks pmut and starts the spawn
\* goroutine, which calls startProc; cleanupTimer().
BoStart ==
  /\ lp = "select"
  /\ StartReady
  /\ mu = "free"
  /\ mu' = "g"
  /\ spawnFor' = 0
  /\ attempts' = Min(attempts + 1, MaxFails)
  /\ timerSet' = FALSE
  /\ start' = "nil"
  /\ UNCHANGED <<dead, journal, backoff, resetTime, timerAt, sinceFail>>
  /\ BackoffFrame

\* startProc returns its error after some time: the goroutine writes
\* ProcessSpawnError, unlocks pmut and sends on proc.exited.
BoSpawnFail ==
  /\ spawnFor = 1
  /\ spawnFor' = -1
  /\ journal' = KeepNewest(Write(journal, SpawnErrorOf(attempts)))
  /\ mu' = "free"
  /\ dead' = 1
  /\ sinceFail' = 0
  /\ UNCHANGED <<attempts, timerSet, start, backoff, resetTime, timerAt>>
  /\ BackoffFrame

\* `case <-proc.exited:` with the reset taken at the deadline already.
BoDeadResetAtDeadline ==
  /\ lp = "select"
  /\ dead > 0
  /\ dead' = 0
  /\ LET nb == nextBackoff(retryBackoff,
                           IF now >= resetTime THEN -1 ELSE backoff)
     IN  /\ backoff' = nb.ix
         /\ resetTime' = now + nb.reset
         /\ timerAt' = now + nb.start
  /\ timerSet' = TRUE
  /\ start' = "timer"
  /\ UNCHANGED <<journal, attempts, spawnFor, sinceFail, mu>>
  /\ BackoffFrame

\* `case <-proc.exited:` proc.proc = nil (it is nil), cleanupTimer() (no
\* timer is set), then the backoff.
BoDead ==
  /\ lp = "select"
  /\ dead > 0
  /\ dead' = 0
  /\ LET nb == nextBackoff(retryBackoff,
                           IF now > resetTime THEN -1 ELSE backoff)
     IN  /\ backoff' = nb.ix
         /\ resetTime' = now + nb.reset
         /\ timerAt' = now + nb.start
  /\ timerSet' = TRUE
  /\ start' = "timer"
  /\ UNCHANGED <<journal, attempts, spawnFor, sinceFail, mu>>
  /\ BackoffFrame

\* One unit of time passes.
BoTick ==
  /\ resetTime' = Max(resetTime - 1, -1)
  /\ timerAt' = IF timerSet THEN Max(timerAt - 1, 0) ELSE timerAt
  /\ spawnFor' = IF spawnFor = 0 THEN 1 ELSE spawnFor
  /\ sinceFail' = Min(sinceFail + 1, MaxDur)
  /\ UNCHANGED <<dead, journal, attempts, timerSet, start, backoff, mu>>
  /\ BackoffFrame

BackoffNext ==
  \/ BoStart
  \/ BoSpawnFail
  \/ BoDead
  \/ BoTick

BackoffSpec == BackoffInit /\ [][BackoffNext]_vars

\* Time passes only while the program waits for it: startProc has just been
\* called, or nothing is left to do before the timer is due.
BoTickPrompt ==
  /\ \/ spawnFor = 0
     \/ spawnFor = -1 /\ dead = 0 /\ ~StartReady
  /\ BoTick

\* Every attempt fails as soon as it has taken some time, and the loop
\* handles every channel as soon as it is ready.
PromptBackoffNext ==
  \/ BoStart
  \/ BoSpawnFail
  \/ BoDead
  \/ BoTickPrompt

PromptBackoffSpec ==
  /\ BackoffInit
  /\ [][PromptBackoffNext]_vars
  /\ WF_vars(BoStart)
  /\ WF_vars(BoSpawnFail)
  /\ WF_vars(BoDead)
  /\ WF_vars(BoTickPrompt)

(* ---- properties of the backoff ---------------------------------------- *)
\* The start delay scheduled by the last failure: nextBackoff returns
\* backoffs[*ix] with the index it has just stored.
StartDelay == retryBackoff[backoff + 1]

\* C26: with a non-decreasing retry_backoff list and every start failing,
\* the start delay scheduled after a failure is not smaller than the one
\* scheduled after the previous failure, as long as the index had not yet
\* reached len(retry_backoff)-1.
C26_DelayNeverDecreases ==
  [][(BoDead /\ backoff >= 0 /\ backoff < Len(retryBackoff) - 1)
       => StartDelay' >= StartDelay]_vars

\* C27: when a failure is handled later than resetTime (the time of the
\* previous backoff entry plus its reset window) the index is reset to -1
\* before the delay is computed, so the delay is retry_backoff[0]; when it is
\* handled at or before resetTime the index is not reset and moves to the
\* next entry, the last entry being kept.
C27_ResetAfterWindow ==
  [][BoDead =>
       IF now > resetTime
         THEN backoff' = 0 /\ timerAt' = now + retryBackoff[1]
         ELSE /\ backoff' = Min(backoff + 1, Len(retryBackoff) - 1)
              /\ timerAt' = now + retryBackoff[backoff' + 1]]_vars

\* At least two failures have been handled and the last one reset the index
\* of a list that has more than one entry.
C27_Witness ==
  /\ Len(retryBackoff) > 1
  /\ Len(journal) >= 2
  /\ dead = 0
  /\ spawnFor = -1
  /\ start = "timer"
  /\ backoff = 0

\* The last element of retry_backoff.
LastDelay == retryBackoff[Len(retryBackoff)]

\* C28: when every start attempt fails right after its delay has elapsed,
\* taking some time, the start delay eventually equals the last element of
\* retry_backoff and keeps that value at every later failure.
C28_DelayReachesLast ==
  <>[](backoff >= 0 /\ StartDelay = LastDelay)

\* The attempts whose failure has been written: all but a running one.
FailedAttempts == IF spawnFor >= 0 THEN attempts - 1 ELSE attempts

\* C29: an automatic spawn attempt is never made sooner after the last
\* failed attempt than the start delay scheduled for that failure; the end
\* of a failed attempt appends exactly one ProcessSpawnError record, carrying
\* the error of that attempt, nothing else writes to the journal, and the
\* records are in attempt order.
C29_DelayRespectedOneRecord ==
  /\ [][(BoStart /\ start = "timer") => sinceFail >= StartDelay]_vars
  /\ [][(spawnFor = 1 /\ spawnFor' = -1)
          => journal' = KeepNewest(Append(journal, SpawnErrorOf(attempts)))]_vars
  /\ [][journal' # journal => (spawnFor = 1 /\ spawnFor' = -1)]_vars
  /\ [](\A i \in 1..(Len(journal) - 1) :
          journal[i + 1] = SpawnErrorOf(Min(journal[i][2] + 1, MaxFails)))
  /\ [](attempts < MaxFails =>
          journal = [i \in 1..FailedAttempts |-> SpawnErrorOf(i)])

\* An automatic attempt has just been started after a positive delay, two
\* failures or more being on record.
C29_Witness ==
  /\ spawnFor = 0
  /\ Len(journal) >= 2
  /\ StartDelay > 0
  /\ sinceFail >= StartDelay

(***************************************************************************)
(* BackwardsReader (src/cronmon/journal/backwardio/backwardio.go), run on  *)
(* its own over a strings.Reader as TestBackwardsReader does               *)
(* (src/cronmon/journal/writer.go:97-139).  r.buf is a slice of a backing  *)
(* array of maxTok bytes: br.off is where it starts in the array, br.len   *)
(* its length, and its capacity is maxTok - br.off.                        *)
(***************************************************************************)
Bytes  == {"LF", ";", "a"}
Delims == {"LF", ";"}

\* r.buf[i] for 0 <= i < len(r.buf), and the slice r.buf[i:].
BufAt(r, i)   == r.arr[r.off + i + 1]
BufFrom(r, i) == [k \in 1..(r.len - i) |-> r.arr[r.off + i + k]]
Cap(r)        == maxTok - r.off

\* fill(): the reader after the call and the error.  Seek and Read of a
\* strings.Reader do not fail here: Read is asked for the bytes between
\* seekTo and the old end, which exist.
fill(r) ==
  LET r1 == IF r.nil
              THEN [r EXCEPT !.nil = FALSE, !.end = Len(stream), !.off = 0,
                             !.len = 0]
              ELSE r
  IN
  IF r1.end = 0 THEN [r |-> r1, err |-> "EOF"]
  ELSE
    LET max    == IF r1.len > 0 THEN Cap(r1) - r1.len ELSE Cap(r1)
        \* r.buf = r.buf[:cap(r.buf)]; copy(r.buf[max:], r.buf)
        arr1   == IF r1.len > 0
                    THEN [i \in 1..maxTok |->
                            IF i > r1.off + max /\ i <= r1.off + Cap(r1)
                              THEN r1.arr[i - max] ELSE r1.arr[i]]
                    ELSE r1.arr
        seekTo == IF r1.end - max < 0 THEN 0 ELSE r1.end - max
        min    == IF r1.end - max < 0 THEN max - r1.end ELSE 0
        \* r.r.Read(r.buf[min:max]) after Seek(seekTo, io.SeekStart)
        arr2   == [i \in 1..maxTok |->
                    IF i > r1.off + min /\ i <= r1.off + max
                      THEN stream[seekTo + (i - r1.off - min)] ELSE arr1[i]]
    IN [r |-> [nil |-> FALSE, arr |-> arr2, off |-> r1.off + min,
               len |-> Cap(r1) - min, end |-> seekTo],
        err |-> "nil"]

\* The inner loop of ReadUntil: the largest i whose byte is the delimiter or
\* that is the beginning of the file, or -1.
ScanBack(r, d) ==
  LET H == {i \in 0..(r.len - 1) :
              BufAt(r, i) = d \/ (i = 0 /\ r.end = 0)}
  IN IF H = {} THEN -1 ELSE CHOOSE i \in H : \A j \in H : j <= i

\* tok := r.buf[i:]; r.buf = r.buf[:i]; a leading '\n' is trimmed and, at
\* the beginning of the file with a token left, r.buf = r.buf[:1].
CutToken(r, i) ==
  LET tok   == BufFrom(r, i)
      isBOF == i = 0 /\ r.end = 0
  IN IF Len(tok) > 0 /\ tok[1] = "LF"
       THEN [r |-> [r EXCEPT !.len = IF isBOF /\ Len(tok) > 1 THEN 1 ELSE i],
             tok |-> Tail(tok), err |-> "nil"]
       ELSE [r |-> [r EXCEPT !.len = i], tok |-> tok, err |-> "nil"]

\* A buffer one byte short of its capacity already counts as full.
BufFullEarly(r) == r.len >= Cap(r) - 1

\* len(r.buf) == cap(r.buf): the scan went over a buffer that cannot grow.
BufFull(r) == r.len = Cap(r)

\* ReadUntil(delim): the reader after the call, the token and the error.
RECURSIVE ReadUntil(_, _)
ReadUntil(r, d) ==
  LET i == IF r.nil THEN -1 ELSE ScanBack(r, d) IN
  IF i >= 0 THEN CutToken(r, i)
  ELSE IF ~r.nil /\ BufFull(r)
    THEN [r |-> r, tok |-> <<>>, err |-> "ErrTooLong"]
  ELSE LET f == fill(r)
       IN IF f.err # "nil" THEN [r |-> f.r, tok |-> <<>>, err |-> f.err]
          ELSE ReadUntil(f.r, d)

\* NewBackwardsReader(strings.NewReader(input)).
ScannerInit ==
  /\ NoProcess
  /\ NoReader
  /\ NoLock
  /\ NoBackoff
  /\ NoOthers
  /\ stream \in UNION {[1..n -> Bytes] : n \in 0..MaxStream}
  /\ delim \in Delims
  /\ br = NewBackwardsReader
  /\ toks = <<>>
  /\ brErr = "nil"

\* One call r.ReadUntil(delim) by a caller that stops at the first error.
CallReadUntil ==
  /\ brErr = "nil"
  /\ LET res == ReadUntil(br, delim)
     IN  /\ br' = res.r
         /\ brErr' = res.err
         /\ toks' = IF res.err = "nil" THEN Append(toks, res.tok) ELSE toks
  /\ UNCHANGED <<ovars, stream, delim, rvars, lvars, bvars, statusFile, mvars, impl,
                 cancelled, crashed, lp, restart, proc, dead, done, mu,
                 timerSet, start, timerAt, afterAt, backoff, resetTime, now,
                 child, gr, journal, nAttempts, nCmds, nStops, stopWait,
                 stopRes, jAtStop, stopPid, lastNoop>>

ScannerNext == CallReadUntil

ScannerSpec == ScannerInit /\ [][ScannerNext]_vars

(* ---- properties of BackwardsReader ------------------------------------ *)
\* The stream split by the delimiter, first line first (strings.Split).
RECURSIVE Split(_, _)
Split(s, d) ==
  IF \A i \in 1..Len(s) : s[i] # d THEN <<s>>
  ELSE LET k == CHOOSE i \in 1..Len(s) :
                  s[i] = d /\ \A j \in 1..(i - 1) : s[j] # d
       IN <<SubSeq(s, 1, k - 1)>> \o Split(SubSeq(s, k + 1, Len(s)), d)

Reverse(s) == [i \in 1..Len(s) |-> s[Len(s) + 1 - i]]

\* Every line fits in the buffer together with its delimiter.
LinesFit == \A i \in 1..Len(Split(stream, delim)) :
              Len(Split(stream, delim)[i]) + 1 <= maxTok

\* C30: for a non-empty stream whose lines fit in the buffer, the calls of
\* ReadUntil(delim) end with EOF, the tokens returned until then are, in
\* reverse order, the stream split by the delimiter, and no token contains
\* the delimiter.
C30_ReverseSplit ==
  (brErr # "nil" /\ stream # <<>> /\ LinesFit)
  => /\ brErr = "EOF"
     /\ Reverse(toks) = Split(stream, delim)
     /\ \A i \in 1..Len(toks) : \A k \in 1..Len(toks[i]) : toks[i][k] # delim

\* What holds instead for the newline delimiter: the same, for the streams
\* that do not begin with two newlines and are not a single newline.
ReverseSplitButLeadingBlanks ==
  ( /\ brErr # "nil"
    /\ stream # <<>>
    /\ LinesFit
    /\ delim = "LF"
    /\ ~(stream[1] = "LF" /\ (Len(stream) = 1 \/ stream[2] = "LF")) )
  => /\ brErr = "EOF"
     /\ Reverse(toks) = Split(stream, delim)
     /\ \A i \in 1..Len(toks) : \A k \in 1..Len(toks[i]) : toks[i][k] # delim
\* The lines of the stream, first line first, and the lines that cannot be
\* scanned: a line needs a buffer byte for the delimiter in front of it,
\* except the first line of the stream, which ends at the beginning of the
\* file.
Lines == Split(stream, delim)
TooLongLines == {k \in 1..Len(Lines) :
                   IF k = 1 THEN Len(Lines[k]) > maxTok
                            ELSE Len(Lines[k]) >= maxTok}

\* The error is returned exactly for the streams with a line that does not
\* fit, and the tokens returned before it are the whole lines that follow
\* the last such line, newest first.
ErrTooLongForLongLines ==
  /\ (brErr # "nil") => (brErr = "ErrTooLong" <=> TooLongLines # {})
  /\ (brErr = "ErrTooLong" /\ delim = "LF")
       => \E k \in TooLongLines :
            /\ \A j \in TooLongLines : j <= k
            /\ Reverse(toks) = SubSeq(Lines, k + 1, Len(Lines))

\* C31: the calls of ReadUntil end with the line-too-long error exactly when
\* some line does not fit in the buffer before the beginning of the stream is
\* reached: the failing call scanned a full buffer without a delimiter with
\* the start of the stream not yet read, it returns no token, and the tokens
\* returned before it are whole lines, so that no part of the long line is
\* ever returned.
C31_TooLong ==
  /\ []ErrTooLongForLongLines
  /\ [][(brErr' = "ErrTooLong")
          => /\ toks' = toks
             /\ BufFull(br') /\ br'.end > 0 /\ ScanBack(br', delim) = -1]_vars
  /\ [][(brErr' # "ErrTooLong")
          => (br'.nil \/ ~BufFull(br') \/ br'.end = 0
                \/ ScanBack(br', delim) >= 0)]_vars

C31_Witness ==
  /\ brErr = "ErrTooLong"
  /\ Len(toks) >= 1
  /\ Len(stream) = MaxStream
(***************************************************************************)
(* The journal file: journal.Writer appends one line per event             *)
(* (src/cronmon/journal/writer.go:37-53) and journal.Reader reads the      *)
(* lines back from the end (src/unnamed/part_006:26-62) through the        *)
(* backwards reader.  A line is the JSON object {time, type, data}         *)
(* followed by a newline; json.Encoder never leaves a raw newline inside   *)
(* the object.  Here the object of an event is its type byte, its time     *)
(* byte and, for a Warning, one byte of reason, so that with maxTok = 3 the *)
(* lines of Acquired and Quit fit in the buffer and those of Warning do    *)
(* not.                                                                    *)
(***************************************************************************)
MaxWritten == 3   \* events written to the journal file
MaxTime    == 2   \* values of time.Now() at a write

EvTypes == {"A", "Q", "W"}   \* acquired, quit, warning
Times   == 1..MaxTime
TimeByte(t) == "t" \o ToString(t)

\* json.Encoder.Encode(Event{Time, Type, Data}): the object and "\n".
Encode(ev) ==
  <<ev.type, TimeByte(ev.time)>>
    \o (IF ev.type = "W" THEN <<"r">> ELSE <<>>) \o <<"LF">>

\* json.Unmarshal of the envelope, cronmon.NewEvent(type), json.Unmarshal of
\* the data: the event and its time, or the error.
Decode(line) ==
  IF Len(line) < 2 \/ line[2] \notin {TimeByte(t) : t \in Times}
    THEN [err |-> "decode"]
  ELSE IF line[1] \notin EvTypes THEN [err |-> "unknown"]
  ELSE IF Len(line) # (IF line[1] = "W" THEN 3 ELSE 2) THEN [err |-> "decode"]
  ELSE [err |-> "nil",
        ev  |-> [type |-> line[1],
                 time |-> CHOOSE t \in Times : TimeByte(t) = line[2]]]

JournalFileInit ==
  /\ NoProcess
  /\ NoReader
  /\ NoLock
  /\ NoBackoff
  /\ stream = <<>>
  /\ delim = "LF"
  /\ br = NewBackwardsReader
  /\ toks = <<>>
  /\ brErr = "nil"
  /\ NoJournalFile
  /\ NoMultiWriter
  /\ NoNextBackoff

JournalFileFrame ==
  UNCHANGED <<nbRet, wpc, wvars, rvars, lvars, bvars, statusFile, mvars, impl,
              cancelled, crashed, lp, restart, proc, dead, done, mu,
              timerSet, start, timerAt, afterAt, backoff, resetTime, now,
              child, gr, journal, nAttempts, nCmds, nStops, stopWait,
              stopRes, jAtStop, stopPid, lastNoop>>

\* Writer.Write(ev) before the file is read back: time.Now() is not before
\* the time of the previous write.
WriterWrite(type, t) ==
  /\ br.nil /\ brErr = "nil"
  /\ Len(written) < MaxWritten
  /\ written # <<>> => t >= written[Len(written)].time
  /\ written' = Append(written, [type |-> type, time |-> t])
  /\ stream' = stream \o Encode([type |-> type, time |-> t])
  /\ UNCHANGED <<delim, br, toks, brErr, got>>
  /\ JournalFileFrame

\* Reader.Read as it was before blank lines were skipped
\* (src/cronmon/journal/reader.go:26-31): every token is decoded.
BlankLineKept(tok) == FALSE

\* `if len(line) > 0 { break }`: an empty line is passed over.
BlankLine(tok) == Len(tok) = 0

\* The loop of Reader.Read: ReadUntil('\n') until a line is not empty or an
\* error is returned.
RECURSIVE NextLine(_)
NextLine(r) ==
  LET res == ReadUntil(r, "LF")
  IN IF res.err # "nil" \/ ~BlankLine(res.tok) THEN res ELSE NextLine(res.r)

\* Reader.Read() by a caller that stops at the first error.
ReaderRead ==
  /\ brErr = "nil"
  /\ LET res == NextLine(br)
         dec == IF res.err = "nil" THEN Decode(res.tok) ELSE [err |-> res.err]
     IN  /\ br' = res.r
         /\ brErr' = dec.err
         /\ got' = IF dec.err = "nil" THEN Append(got, dec.ev) ELSE got
         /\ toks' = IF res.err = "nil" THEN Append(toks, res.tok) ELSE toks
  /\ UNCHANGED <<stream, delim, written>>
  /\ JournalFileFrame

JournalFileNext ==
  \/ \E type \in EvTypes, t \in Times : WriterWrite(type, t)
  \/ ReaderRead

JournalFileSpec == JournalFileInit /\ [][JournalFileNext]_vars

LongRecordStopsRead ==
  (brErr # "nil" /\ TooLongLines # {}) => brErr = "ErrTooLong"
(***************************************************************************)
(* multiWriter.Write (src/cronmon/journal/journal.go:49-58), on its own    *)
(* over writers that each return an error or not, as they please.          *)
(***************************************************************************)
MaxSinks    == 3   \* writers of the multiWriter
MaxMwWrites == 3   \* calls of multiWriter.Write

MultiWriterInit ==
  /\ NoProcess
  /\ NoReader
  /\ NoLock
  /\ NoBackoff
  /\ NoScanner
  /\ NoJournalFile
  /\ NoNextBackoff
  /\ nSinks \in 0..MaxSinks
  /\ mwPos = 0
  /\ mwFirst = 0
  /\ mwCalls = <<>>
  /\ mwRet = -1
  /\ mwWrites = 0

MultiWriterFrame ==
  UNCHANGED <<nbRet, wpc, jvars, rvars, lvars, bvars, svars, statusFile, mvars,
              impl,
              cancelled, crashed, lp, restart, proc, dead, done, mu,
              timerSet, start, timerAt, afterAt, backoff, resetTime, now,
              child, gr, journal, nAttempts, nCmds, nStops, stopWait,
              stopRes, jAtStop, stopPid, lastNoop>>

\* Write is called: var firstErr error.
MwWrite ==
  /\ mwPos = 0
  /\ mwWrites < MaxMwWrites
  /\ mwWrites' = mwWrites + 1
  /\ mwPos' = 1
  /\ mwFirst' = 0
  /\ mwCalls' = <<>>
  /\ mwRet' = -1
  /\ UNCHANGED nSinks
  /\ MultiWriterFrame

\* The loop leaves at the first error.
MwSinkStopAtError(failed) ==
  /\ mwPos \in 1..nSinks
  /\ mwCalls' = Append(mwCalls, <<mwPos, failed>>)
  /\ mwFirst' = IF failed /\ mwFirst = 0 THEN mwPos ELSE mwFirst
  /\ mwPos' = IF failed THEN nSinks + 1 ELSE mwPos + 1
  /\ UNCHANGED <<nSinks, mwRet, mwWrites>>
  /\ MultiWriterFrame

\* One iteration: err := writer.Write(event); firstErr is set when err is
\* not nil and firstErr is nil.
MwSink(failed) ==
  /\ mwPos \in 1..nSinks
  /\ mwCalls' = Append(mwCalls, <<mwPos, failed>>)
  /\ mwFirst' = IF failed /\ mwFirst = 0 THEN mwPos ELSE mwFirst
  /\ mwPos' = mwPos + 1
  /\ UNCHANGED <<nSinks, mwRet, mwWrites>>
  /\ MultiWriterFrame

\* return firstErr
MwReturn ==
  /\ mwPos = nSinks + 1
  /\ mwRet' = mwFirst
  /\ mwPos' = 0
  /\ UNCHANGED <<nSinks, mwFirst, mwCalls, mwWrites>>
  /\ MultiWriterFrame

MultiWriterNext ==
  \/ MwWrite
  \/ \E failed \in BOOLEAN : MwSink(failed)
  \/ MwReturn

MultiWriterSpec == MultiWriterInit /\ [][MultiWriterNext]_vars

\* The writers that returned an error during the current Write.
MwFailed == {mwCalls[k][1] : k \in {j \in 1..Len(mwCalls) : mwCalls[j][2]}}

\* C33: when Write has returned, every writer was called exactly once, in
\* the order of the list, whether or not an earlier one failed, and the
\* value returned is the error of the first writer that failed, or nil if
\* none failed.
C33_FanOut ==
  mwRet # -1
    => /\ Len(mwCalls) = nSinks
       /\ \A k \in 1..nSinks : mwCalls[k][1] = k
       /\ IF MwFailed = {} THEN mwRet = 0
          ELSE mwRet \in MwFailed /\ \A k \in MwFailed : mwRet <= k

C33_Witness ==
  /\ mwRet = 2
  /\ nSinks = MaxSinks
  /\ mwCalls[MaxSinks][2]
  /\ mwWrites = MaxMwWrites
(***************************************************************************)
(* TryWatch (src/cronmon/watcher.go:22-40) under newMonitor: the goroutine *)
(* runs w.init(), which succeeds or fails.  After a failure it journals a  *)
(* warning and returns; w.Events, made by newWatcher, is sent on only by   *)
(* w.watch and closed by nobody.                                           *)
(***************************************************************************)
WatchInit ==
  /\ MonStart
  /\ wpc = "init"

WatchFrame ==
  UNCHANGED <<nbRet, rvars, lvars, bvars, svars, jvars, wvars, procWorld,
              procFields, child, nAttempts, statusFile, mode, mctx, mpc,
              mcmd, known, rpc, rpid, nEvents, lastEv, firstCmd>>

\* w.init() returns nil and the goroutine goes on to w.watch(ctx).
WatchInitOk ==
  /\ ~crashed
  /\ wpc = "init"
  /\ wpc' = "watching"
  /\ UNCHANGED journal
  /\ WatchFrame

\* After the warning the goroutine goes on to w.watch(ctx) all the same.
WatchInitFailWatches ==
  /\ ~crashed
  /\ wpc = "init"
  /\ journal' = Write(journal, EventWatcherWarning)
  /\ wpc' = "watching"
  /\ WatchFrame

\* w.init() returns an error: j.Write(&EventWarning{...}); return.
WatchInitFail ==
  /\ ~crashed
  /\ wpc = "init"
  /\ journal' = Write(journal, EventWatcherWarning)
  /\ wpc' = "failed"
  /\ WatchFrame

\* The monitor and its supervisor without the handlers of watcher events,
\* which are reached only through w.Events.
WatchNext ==
  \/ WatchInitOk
  \/ WatchInitFail
  \/ MonSendCmd
  \/ MonReadPrevious
  \/ MonAcquire
  \/ MonReadDir
  \/ MonCtrl
  \/ MonCtrlDropped
  \/ MonCancel
  \/ MonCtxDone
  \/ MonQuitStopped
  \/ LoopStartWaiting
  \/ (nAttempts < MaxAttempts - 1 /\ LoopStart)
  \/ LoopDead
  \/ LoopCtxDone
  \/ LoopStopTimeout
  \/ LoopStopDead
  \/ Tick
  \/ \E p \in Pids : ChildExit(p)
  \/ \E g \in Pids : GrLoad(g)
  \/ \E g \in Pids : GrWait(g)
  \/ \E g \in Pids : GrWrite(g)
  \/ \E g \in Pids : GrSend(g)

WatchSpec == WatchInit /\ [][WatchNext]_vars

WatchFairness ==
  /\ WF_vars(WatchInitOk \/ WatchInitFail)

FairWatchSpec == WatchSpec /\ Fairness /\ MonFairness /\ WatchFairness

\* `case ev := <-m.watch.Events:` can be taken: one of the handlers of a
\* watcher event can run.
WatcherEventReceivable == ENABLED (MonAdd \/ MonRemove \/ MonUpdate)

WatcherWarned == \E i \in 1..Len(journal) : journal[i] = EventWatcherWarning

\* C34: once the watcher has failed to initialise, its warning is in the
\* journal, it stays failed, the monitor's loop can never receive an event
\* of the watcher (none is sent, and the channel is not closed), and the
\* closure of the startup rescan is still run by the loop: unless the monitor
\* is cancelled, a supervisor is created for the file found and its Start
\* (or Takeover) is delivered.
C34_WatcherInitFailure ==
  /\ [](wpc = "failed" => (WatcherWarned /\ nEvents = 0))
  /\ [](WatcherWarned => (wpc = "failed" /\ ~WatcherEventReceivable))
  /\ [][wpc = "failed" => wpc' = "failed"]_vars
  /\ (wpc = "failed" /\ rpc = "send")
       ~> (mctx \/ (rpc = "ran" /\ known /\ firstCmd # "none"))

C34_Witness ==
  /\ wpc = "failed"
  /\ mode = "new"
  /\ ~mctx
  /\ rpc = "ran"
  /\ firstCmd = "start"
  /\ proc # 0 /\ child[proc].st = "alive"
(***************************************************************************)
(* nextBackoff (src/cronmon/process.go:248-264, the same text at           *)
(* src/unnamed/part_004:328-344) on its own: any list of durations, any    *)
(* index from -1 to the last, the function applied to what it returned.    *)
(***************************************************************************)
DurationLists == UNION {[1..n -> 0..MaxDur] : n \in 1..MaxBackoffs}

NextBackoffInit ==
  /\ NoProcess
  /\ NoReader
  /\ NoLock
  /\ NoScanner
  /\ NoJournalFile
  /\ NoMultiWriter
  /\ nbRet = [ix |-> -1, start |-> 0, reset |-> 0]
  /\ retryBackoff \in DurationLists
  /\ attempts = 0
  /\ spawnFor = -1
  /\ sinceFail = 0
  /\ backoff \in -1..(Len(retryBackoff) - 1)

\* start, reset := nextBackoff(backoffs, &ix)
CallNextBackoff ==
  /\ LET nb == nextBackoff(retryBackoff, backoff)
     IN  /\ backoff' = nb.ix
         /\ nbRet' = [ix |-> backoff, start |-> nb.start, reset |-> nb.reset]
  /\ UNCHANGED <<rvars, lvars, svars, jvars, wvars, wpc, retryBackoff,
                 attempts, spawnFor, sinceFail, statusFile, mvars, impl,
                 cancelled, crashed, lp, restart, proc, dead, done, mu,
                 timerSet, start, timerAt, afterAt, resetTime, now, child,
                 gr, journal, nAttempts, nCmds, nStops, stopWait, stopRes,
                 jAtStop, stopPid, lastNoop>>

NextBackoffNext == CallNextBackoff

NextBackoffSpec == NextBackoffInit /\ [][NextBackoffNext]_vars

\* C35: the call with index i returns the start delay
\* backoff[min(i+1, len-1)] and the reset window backoff[min(i+2, len-1)]
\* and leaves the index at min(i+1, len-1).
C35_NextBackoff ==
  [][LET n == Len(retryBackoff)
         i == backoff
     IN  /\ backoff' = Min(i + 1, n - 1)
         /\ nbRet'.start = retryBackoff[Min(i + 1, n - 1) + 1]
         /\ nbRet'.reset = retryBackoff[Min(i + 2, n - 1) + 1]]_vars

\* What the call returns: the start delay and the index are as stated, and
\* the reset window is taken from index i+2 only up to len-2; from i = len-3
\* it is the start delay itself.
NextBackoffResetStopsEarly ==
  [][LET n == Len(retryBackoff)
         i == backoff
     IN  /\ backoff' = Min(i + 1, n - 1)
         /\ nbRet'.start = retryBackoff[Min(i + 1, n - 1) + 1]
         /\ nbRet'.reset = retryBackoff[(IF i + 2 <= n - 2 THEN i + 2
                                         ELSE Min(i + 1, n - 1)) + 1]]_vars
(* ---- ReadPreviousState and the Acquired record (ReaderSpec) ------------ *)
\* The pids that the records newer than the newest Acquired record leave for
\* a file: those of its Spawned records there with no newer Quit and no newer
\* Exited record of the pid.
PidsOfRun(f) == {events[i].pid : i \in Qualifying(f)}

\* C36: ReadPreviousState never reads past the newest Acquired record; when
\* it returns a state it has read exactly up to that record, StartedAt is the
\* time of that record, and the processes map is made of the records newer
\* than it alone: every entry is the pid of a qualifying Spawned record of
\* the file among them, and a file without one has no entry, whatever older
\* records the journal holds.
C36_StopsAtAcquired ==
  /\ cursor <= AcquiredAt
  /\ ret.err = "nil" =>
       /\ cursor = AcquiredAt
       /\ ret.state.StartedAt = Len(events) - AcquiredAt + 1
       /\ \A f \in Files :
            IF PidsOfRun(f) = {}
              THEN f \notin DOMAIN ret.state.Processes
              ELSE /\ f \in DOMAIN ret.state.Processes
                   /\ ret.state.Processes[f] \in PidsOfRun(f)

\* A state was returned for a journal with an older run behind the newest
\* Acquired record: that run spawned children of both files and acquired the
\* journal itself, and the newer run left a child of one file only.
C36_Witness ==
  /\ ret.err = "nil"
  /\ AcquiredAt < Len(events)
  /\ DOMAIN ret.state.Processes # {}
  /\ \E f \in Files :
       /\ f \notin DOMAIN ret.state.Processes
       /\ \E i \in (AcquiredAt + 1)..Len(events) :
            events[i].type = "ProcessSpawned" /\ events[i].file = f
  /\ \E i \in (AcquiredAt + 1)..Len(events) : events[i].type = "Acquired"
(* ---- the wait routine and the dead signal (Spec) ----------------------- *)
\* The journal holds the ProcessExited record of the child with the status
\* that Wait returned.
ExitJournaled(p, code) ==
  \E i \in 1..Len(journal) : journal[i] = EventProcessExited(p, code)

\* C37: a goroutine that has waited for a child and is about to signal dead
\* has already written the ProcessExited record of that child, and the
\* journal only grows, so the record is there when the loop or stop()
\* receives the signal.
C37_ExitedBeforeDead ==
  /\ [](\A g \in Pids :
          (gr[g].pc = "send" /\ gr[g].h # 0) => ExitJournaled(gr[g].h, gr[g].code))
  /\ [][Len(journal') >= Len(journal)
          /\ SubSeq(journal', 1, Len(journal)) = journal]_vars

\* The loop has received the dead signal of a child that exited: the handle
\* is cleared, the backoff timer is armed and the record is in the journal.
C37_Witness ==
  /\ \E g \in Pids : gr[g].pc = "done" /\ child[g].st = "dead"
                       /\ ExitJournaled(g, child[g].code)
  /\ dead = 0
  /\ proc = 0
  /\ start = "timer"
(* ---- start(restart = true) on a live child (mutex revision) ------------ *)
\* The journal holds a ProcessExited record of the child.
ExitReported(p) == \E i \in 1..Len(journal) : IsExited(i, p)

MaxRestartCmds == 3  \* Start(restart) calls made by the owner

\* The supervisor of the mutex revision on its own, with room for a start
\* that fails, a start that races the report of that failure, and a restart.
RestartInit == Init /\ impl = "mutex"

RestartNext ==
  \/ CmdStartWithin(MaxRestartCmds)
  \/ LoopStart
  \/ LoopRestartTimeout
  \/ LoopRestartDead
  \/ LoopDead
  \/ LoopCtxDone
  \/ LoopStopTimeout
  \/ LoopStopDead
  \/ StopCall
  \/ StopReturn
  \/ Tick
  \/ \E p \in Pids : ChildExit(p)
  \/ \E g \in Pids : GrSpawn(g)
  \/ \E g \in Pids : GrWriteSpawned(g)
  \/ \E g \in Pids : GrWait(g)
  \/ \E g \in Pids : GrWrite(g)
  \/ \E g \in Pids : GrSend(g)

RestartSpec == RestartInit /\ [][RestartNext]_vars

\* C38: when stop(false) inside start(true) returns and the goroutine that
\* spawns the replacement is started, the child that the supervisor owned
\* has exited and its ProcessExited record is in the journal, so that the
\* record precedes the ProcessSpawned of the replacement and the two
\* children are never alive together.
C38_RestartStopsFirst ==
  [][(lp \in {"restartStop", "restartKilled"} /\ lp' = "select")
       => (child[proc].st = "dead" /\ ExitReported(proc))]_vars
(* ---- the monitor loop handling watcher events -------------------------- *)
\* The monitor loop is inside addFile, removeFile or restartFile.
Handling == mpc \in {"addCmd", "removeStop", "restartStop"}

MaxHandled == 2  \* watcher events handled after the directory scan

\* A fresh monitor whose watcher delivers up to MaxHandled events, so that
\* an event can follow an Update of the file the directory scan added.
EventsInit == MonInit /\ mode = "new"

EventsNext ==
  \/ MonAddWithin(MaxHandled)
  \/ MonSendCmd
  \/ MonRemoveWithin(MaxHandled)
  \/ MonUpdateWithin(MaxHandled)
  \/ MonRemoveStopped
  \/ MonRestartStopped
  \/ MonAcquire
  \/ MonReadDir
  \/ MonCtrl
  \/ MonCtrlDropped
  \/ MonCancel
  \/ MonCtxDone
  \/ MonQuitStopped
  \/ LoopStartWaiting
  \/ (nAttempts < MaxAttempts - 1 /\ LoopStart)
  \/ LoopDead
  \/ LoopCtxDone
  \/ LoopStopTimeout
  \/ LoopStopDead
  \/ Tick
  \/ \E p \in Pids : ChildExit(p)
  \/ \E g \in Pids : GrLoad(g)
  \/ \E g \in Pids : GrWait(g)
  \/ \E g \in Pids : GrWrite(g)
  \/ \E g \in Pids : GrSend(g)

EventsSpec == EventsInit /\ [][EventsNext]_vars

FairEventsSpec == EventsSpec /\ Fairness /\ MonFairness

\* C39: the monitor loop never blocks forever while it handles an Add, an
\* Update or a Remove event: from every state in which it is inside a
\* handler it eventually returns to its select and can receive the next
\* event.
C39_EventHandled == Handling ~> (mpc = "select")
(* ---- the dead channel of the supervisor -------------------------------- *)
\* Dead signals that have been produced and not consumed: the value in the
\* channel's buffer, the goroutines waiting to send, and the loop itself
\* when it waits to send inside start() or takeover().
Outstanding ==
  dead + Cardinality({g \in Pids : gr[g].pc = "send"})
       + (IF lp = "blocked" THEN 1 ELSE 0)

\* The loop is not waiting to send on proc.dead, which only it receives from.
LoopNeverBlockedOnDead == lp # "blocked"

AtMostOneOutstanding == Outstanding <= 1

\* `case <-proc.dead: proc.proc = nil` does not drop the handle of a child
\* that is alive.
DeadClearsNoLiveChild ==
  [][(lp = "select" /\ dead > 0 /\ dead' = 0 /\ proc # 0 /\ proc' = 0)
       => child[proc].st = "dead"]_vars

\* C40: the supervisor loop never waits to send on its own dead channel, at
\* most one dead signal is outstanding in every reachable state, and a dead
\* signal the loop consumes never clears the handle of a child that is
\* still alive.
C40_DeadChannel ==
  /\ []LoopNeverBlockedOnDead
  /\ []AtMostOneOutstanding
  /\ DeadClearsNoLiveChild

====
